---- MODULE Spec2Model ----
(***************************************************************************)
(* The stream buffer of modules/renter/streambuffer.go: a set of stream    *)
(* buffers indexed by data source id, every buffer a map of refcounted     *)
(* data sections fetched in the background, and streams that read and seek *)
(* through a buffer and keep the sections they want in a private LRU.      *)
(*                                                                         *)
(* Every critical section of the code (one Lock .. Unlock span) is one     *)
(* step of the model; the steps of different streams interleave freely.    *)
(* A stream has a single owner: one operation at a time runs on it.        *)
(***************************************************************************)
EXTENDS Integers, Sequences, FiniteSets, TLC

\* ---------------------------------------------------------------- bounds
MaxDataSize == 3
MaxReadLen == 2
MaxOverrun == 1
\* the longest address list a caller passes to the blacklist API
MaxAddrs == 2
\* the largest speed a caller passes to SetRateLimits
MaxSpeed == 1
\* the ceiling of the peer set and the ceiling of its outbound peers, scaled
\* down
maxPeers == 3
\* the most chunks in the upload heap, and the most chunks under repair
MaxHeapLen == 4
MaxRepairing == 2
\* the most ReadAt calls in flight on one data source
MaxReadAts == 3
maxOutboundPeers == 2

\* stream objects that can be open at the same time, and the buffer objects
\* they can point to
Streams == {1, 2}
Buffers == {1, 2}
SourceIDs == {1, 2}
RequestSizes == {1, 2}
BuildChoices == {2}
BuildChoicesOne == {2, 3}

\* the eviction scenario: 256 bytes buffered per stream (the Testing build),
\* sections of 64 bytes, data of 6 and of 7 sections
ScenarioBytesPerStream == 256
ScenarioSectionSize == 64
ScenarioIDs == {3, 4}

\* the examples of the documentation of bytesBufferedPerStream, in kb: 100kb
\* buffered per stream, request sizes of 10kb and of 50kb
DocBytesPerStream == 100
DocRequestSizes == {10, 50}

\* ------------------------------------------------------------- constants
minimumDataSections == 2

SeekStart == 0
SeekCurrent == 1
SeekEnd == 2

\* uint64 arithmetic is modular. The modulus is scaled from 2^64 to 2^16 so
\* that the model checker's integers hold it; every value of a run that does
\* not wrap stays far below it.
UintModulus == 2^16
Wrap(x) == x % UintModulus

\* int64(x) of a uint64: the upper half of the range comes out negative
Int64(x) == IF x >= UintModulus \div 2 THEN x - UintModulus ELSE x

\* make([]byte, n) panics when n, taken as an int, is negative
makePanics(n) == n >= UintModulus \div 2

NoBuf == 0
\* an unlocked mutex
NoHolder == 0

Min(a, b) == IF a < b THEN a ELSE b

\* ----------------------------------------------------------- data sources
\* The content of a data source is a function of its id: sources with the
\* same id hold the same bytes.
DataSize(id) ==
    IF id = 1 THEN MaxDataSize
    ELSE IF id = 2 THEN 2
    ELSE (id + 3) * ScenarioSectionSize
SourceByte(id, p) == (16 * id + p) % 256

\* ReadAt(buf, off) of a well-behaved source: len(buf) bytes from off on
ReadAt(id, off, len) == [k \in 1..len |-> SourceByte(id, off + k - 1)]

Zeros(n) == [k \in 1..n |-> 0]

\* ------------------------------------------------------------------ state
VARIABLES
    bytesBufferedPerStream, \* build.Select'ed at start
    streams,                \* streamBufferSet.streams: id -> buffer
    dataSections,           \* per buffer: index -> dataSection
    externRefCount,
    staticDataSize,
    staticDataSectionSize,
    staticStreamID,
    readAtCalls,            \* per buffer: index -> ReadAt calls since the index is present
    pc,                     \* per stream: position of its owner
    offset,
    lru,                    \* per stream: indices, most recently used first
    lruSize,                \* per stream: capacity of its lru
    staticStreamBuffer,
    todo,                   \* per stream: indices prepareOffset still has to update
    ret,                    \* what the step just taken fixed for its caller, and its calls to SilentClose
    panic,                  \* "" or why the process died
    sbsMu,                  \* streamBufferSet.mu: the stream whose owner holds it, or NoHolder
    sbMu,                   \* per buffer, streamBuffer.mu: the stream whose owner holds it
    at,                     \* per stream: "", or the lock its owner is inside, or "managedData"
    mu,                     \* per stream, stream.mu: the caller that holds it
    caller,                 \* the caller of the operation whose result ret holds
    renterStopped,          \* the stop signal of the thread group the streams run under
    uploadHeap,             \* the renter's uploadHeap: heap, the three maps of chunk ids, and what the last call returned
    dataSource,             \* per buffer, its staticDataSource: the ReadAt calls in flight, and whether SilentClose was called
    delivered,              \* what the reader of a stream has got: the offset it began at and the bytes of its Reads
    blacklist,              \* Gateway.blacklist: a set of hosts
    peers,                  \* Gateway.peers: the addresses of the connected peers
    nodes,                  \* Gateway.nodes: the known addresses
    sessOpen,               \* the addresses whose peer session is open
    inbound,                \* the peers that connected to the gateway (peer.Inbound)
    rl,                     \* Gateway.rl: what SetLimits was last called with
    persist,                \* Gateway.persist: the rate limits in memory
    saved,                  \* what the last successful saves wrote
    gmu,                    \* Gateway.mu: its writer and its readers
    threads,                \* Gateway.threads: stop signal and counter
    peerTG,                 \* Gateway.peerTG
    call,                   \* per caller: its API call in progress
    gret,                   \* what the gateway step just taken returned to its caller
    closePc,                \* where Close stands
    onStopLeft,             \* the OnStop hooks Stop has still to call, and the one running
    afterStopLeft,          \* the AfterStop hooks Stop has still to call
    loops,                  \* the permanent loops that have not closed their channel
    listenerOpen,
    logOpen

bufVars == <<streams, dataSections, externRefCount, staticDataSize,
             staticDataSectionSize, staticStreamID, readAtCalls>>
streamVars == <<pc, offset, lru, lruSize, staticStreamBuffer, todo>>
lockVars == <<sbsMu, sbMu, at, mu, caller>>
gwVars == <<blacklist, peers, nodes, sessOpen, inbound, rl, persist, saved, gmu, threads,
            peerTG, call, gret, closePc, onStopLeft, afterStopLeft, loops,
            listenerOpen, logOpen>>
outerVars == <<renterStopped, uploadHeap, dataSource, delivered, gwVars>>
vars == <<bytesBufferedPerStream, bufVars, streamVars, ret, panic, lockVars, outerVars>>

EmptyMap == [i \in {} |-> 0]
MapPut(m, i, v) == [j \in DOMAIN m \cup {i} |-> IF j = i THEN v ELSE m[j]]
MapDel(m, i) == [j \in DOMAIN m \ {i} |-> m[j]]

\* s, op: the stream and its operation; arg, whence, len: what Seek and Read
\* were called with; n, data, err, pos: the result;
\* buf: the buffer the operation worked on; srcCloses, argCloses: the calls of
\* SilentClose on the buffer's data source and on the data source passed in
NoRet == [s |-> 0, op |-> "none", arg |-> 0, whence |-> 0, len |-> 0,
          n |-> 0, data |-> <<>>, err |-> "", pos |-> 0,
          buf |-> 0, srcCloses |-> 0, argCloses |-> 0]

\* ------------------------------------------------------------------- LRU
Without(q, i) == SelectSeq(q, LAMBDA x : x # i)
InSeq(q, i) == \E k \in 1..Len(q) : q[k] = i
Front(q) == SubSeq(q, 1, Len(q) - 1)
Last(q) == q[Len(q)]

\* ------------------------------------------------------- the stream buffer
\* a capacity that is the minimum whatever the build buffers
dataSectionsToCacheMinimum(bbps, sectionSize) == minimumDataSections

dataSectionsToCache(bbps, sectionSize) ==
    IF bbps \div sectionSize < minimumDataSections
    THEN minimumDataSections
    ELSE bbps \div sectionSize

\* a fetch size that takes every section for a whole one
fetchSizeWhole(b, index) == staticDataSectionSize[b]

fetchSize(b, index) ==
    IF (index + 1) * staticDataSectionSize[b] > staticDataSize[b]
    THEN Wrap(staticDataSize[b] - index * staticDataSectionSize[b])
    ELSE staticDataSectionSize[b]

\* fetchPc is where the section's fetch goroutine stands: in "ReadAt", before
\* "close", or "done"
newDataSection(b, index) ==
    [dataAvailable |-> FALSE,
     externData |-> Zeros(fetchSize(b, index)),
     externErr |-> FALSE,
     refCount |-> 0,
     fetchPc |-> "ReadAt"]

\* a lookup that never finds the section
sectionNeverExists(b, index) == FALSE

\* dataSection, exists := sb.dataSections[index]
sectionExists(b, index) == index \in DOMAIN dataSections[b]

\* callFetchDataSection panics when it has to make a section whose size
\* does not fit
fetchPanics(b, index) ==
    ~sectionExists(b, index) /\ makePanics(fetchSize(b, index))

\* the ReadAt calls for an index so far, one more with every newDataSection
calls(m, index) == IF index \in DOMAIN m THEN m[index] ELSE 0

\* a fetch that does not count the reference on the section it makes
callFetchDataSectionNoCount(b, index) ==
    LET exists == index \in DOMAIN dataSections[b]
        ds == IF exists
              THEN [dataSections[b][index] EXCEPT !.refCount = Wrap(@ + 1)]
              ELSE newDataSection(b, index)
    IN  /\ dataSections' = [dataSections EXCEPT ![b] = MapPut(@, index, ds)]
        /\ readAtCalls' = [readAtCalls EXCEPT ![b] =
               IF exists THEN @ ELSE MapPut(@, index, calls(@, index) + 1)]

\* a fetch that counts a reference only for the section it makes
callFetchDataSectionCountsOnce(b, index) ==
    LET exists == index \in DOMAIN dataSections[b]
        ds == IF exists THEN dataSections[b][index]
              ELSE [newDataSection(b, index) EXCEPT !.refCount = 1]
    IN  /\ dataSections' = [dataSections EXCEPT ![b] = MapPut(@, index, ds)]
        /\ readAtCalls' = [readAtCalls EXCEPT ![b] =
               IF exists THEN @ ELSE MapPut(@, index, calls(@, index) + 1)]

\* a fetch that asks the source again for a section whose fetch failed
callFetchDataSectionRetries(b, index) ==
    LET exists == sectionExists(b, index)
        failed == exists /\ dataSections[b][index].externErr
        ds == IF exists /\ ~failed THEN dataSections[b][index]
              ELSE [newDataSection(b, index) EXCEPT
                        !.refCount = IF exists THEN dataSections[b][index].refCount ELSE 0]
    IN  /\ dataSections' = [dataSections EXCEPT ![b] =
               MapPut(@, index, [ds EXCEPT !.refCount = Wrap(ds.refCount + 1)])]
        /\ readAtCalls' = [readAtCalls EXCEPT ![b] =
               IF exists /\ ~failed THEN @ ELSE MapPut(@, index, calls(@, index) + 1)]

callFetchDataSection(b, index) ==
    LET exists == sectionExists(b, index)
        ds == IF exists THEN dataSections[b][index] ELSE newDataSection(b, index)
    IN  /\ dataSections' = [dataSections EXCEPT ![b] =
               MapPut(@, index, [ds EXCEPT !.refCount = Wrap(ds.refCount + 1)])]
        /\ readAtCalls' = [readAtCalls EXCEPT ![b] =
               IF exists THEN @ ELSE MapPut(@, index, calls(@, index) + 1)]

\* callRemoveDataSection panics on the section it does not find
removePanics(b, index) == index \notin DOMAIN dataSections[b]

\* a removal that counts down and keeps the section
callRemoveDataSectionKeeps(b, index) ==
    /\ dataSections' = [dataSections EXCEPT ![b][index].refCount = Wrap(@ - 1)]
    /\ UNCHANGED readAtCalls

\* a removal that deletes the section whatever its refCount
callRemoveDataSectionAlways(b, index) ==
    /\ dataSections' = [dataSections EXCEPT ![b] = MapDel(@, index)]
    /\ readAtCalls' = [readAtCalls EXCEPT ![b] = MapDel(@, index)]

callRemoveDataSection(b, index) ==
    LET ds == dataSections[b][index]
        rc == Wrap(ds.refCount - 1)
    IN  IF rc = 0
        THEN /\ dataSections' = [dataSections EXCEPT ![b] = MapDel(@, index)]
             /\ readAtCalls' = [readAtCalls EXCEPT ![b] = MapDel(@, index)]
        ELSE /\ dataSections' = [dataSections EXCEPT ![b][index].refCount = rc]
             /\ UNCHANGED readAtCalls

\* a prepareOffset that does not look ahead
prepareOffsetCurrentOnly(off, dataSize, dataSectionSize) ==
    IF off = dataSize THEN <<>> ELSE <<off \div dataSectionSize>>

\* prepareOffset: the indices it hands to lru.callUpdate, in order
prepareOffset(off, dataSize, dataSectionSize) ==
    LET index == off \div dataSectionSize
        nextIndex == index + 1
    IN  IF off = dataSize THEN <<>>
        ELSE IF nextIndex * dataSectionSize < dataSize THEN <<index, nextIndex>>
        ELSE <<index>>

\* ---------------------------------------------------------------- gateway
\* Addresses are host:port pairs; Host() is the host without the port.
Hosts == {1, 2}
Addrs == {<<1, 1>>, <<1, 2>>, <<2, 1>>}
Host(addr) == addr[1]

\* the addresses connections come from when the listener is modelled: those
\* above and two of a host of the local network
LocalHosts == {3}
AcceptAddrs == Addrs \cup {<<3, 1>>, <<3, 2>>}
Local(addr) == Host(addr) \in LocalHosts

\* the goroutines that call the gateway's API
Callers == {1, 2}

\* the OnStop hooks in the order NewCustomGateway registers them, the
\* AfterStop hooks likewise, and the permanent loops it spawns
OnStopHooks == <<"peerTG", "rpcs", "listener", "peerManager", "nodeManager", "nodePurger">>
AfterStopHooksSaveFirst == <<"save", "log">>
AfterStopHooks == <<"log", "save">>
Loops == {"listener", "peerManager", "nodeManager", "nodePurger"}

Range(q) == {q[k] : k \in 1..Len(q)}

\* op, args, down, up: the call; addrs: the addresses its loop has not come
\* to yet; old: the blacklist when it took g.mu; err, val: what it returns
NoCall == [op |-> "", pc |-> "idle", args |-> <<>>, addrs |-> <<>>, down |-> 0, up |-> 0,
           admitted |-> FALSE, old |-> {}, err |-> "", val |-> {}]
NoGret == [c |-> 0, op |-> "", args |-> <<>>, old |-> {}, err |-> "", val |-> {},
           down |-> 0, up |-> 0]

\* the gateway as NewCustomGateway returns it, nothing loaded
NewCustomGateway ==
    /\ blacklist = {}
    /\ peers = {}
    /\ nodes = {}
    /\ sessOpen = {}
    /\ inbound = {}
    /\ rl = [down |-> 0, up |-> 0, packetSize |-> 0]
    /\ persist = [MaxDownloadSpeed |-> 0, MaxUploadSpeed |-> 0]
    /\ saved = [MaxDownloadSpeed |-> 0, MaxUploadSpeed |-> 0, blacklist |-> {}, nodes |-> {}]
    /\ gmu = [w |-> NoHolder, r |-> {}]
    /\ threads = [stopped |-> FALSE, count |-> 0]
    /\ peerTG = [stopped |-> FALSE, count |-> 0]
    /\ call = [c \in Callers |-> NoCall]
    /\ gret = NoGret
    /\ closePc = "idle"
    /\ onStopLeft = [left |-> Range(OnStopHooks), running |-> ""]
    /\ afterStopLeft = AfterStopHooks
    /\ loops = Loops
    /\ listenerOpen = TRUE
    /\ logOpen = TRUE

\* ------------------------------------------------------------ upload heap
\* the chunks addChunksOfDifferentHealth pushes: numChunks of each of four
\* kinds, the health of a chunk its index
numChunks == 2
UIDs == {"priority", "fileRecentlySuccessful", "stuck", "unstuck"}

unfinishedUploadChunk(uid, i) ==
    [fileUID |-> uid, index |-> i,
     stuck |-> uid = "stuck",
     fileRecentlySuccessful |-> uid = "fileRecentlySuccessful",
     priority |-> uid = "priority",
     health |-> i]

Chunks == {unfinishedUploadChunk(uid, i) : uid \in UIDs, i \in 1..numChunks}

\* unfinishedUploadChunk.id
ChunkID(c) == <<c.fileUID, c.index>>

\* a heap ordered by health alone
LessByHealth(a, b) == a.health > b.health

\* uploadChunkHeap.Less: priority chunks before the others, then chunks of a
\* file recently repaired with success, then stuck chunks, and the worse
\* health first among chunks of a kind
Less(a, b) ==
    IF a.priority # b.priority THEN a.priority
    ELSE IF a.fileRecentlySuccessful # b.fileRecentlySuccessful THEN a.fileRecentlySuccessful
    ELSE IF a.stuck # b.stuck THEN a.stuck
    ELSE a.health > b.health

Swap(h, i, j) == [h EXCEPT ![i] = h[j], ![j] = h[i]]

\* container/heap: up and down, on a heap kept in h[1..n]
RECURSIVE heapUp(_, _)
heapUp(h, j) ==
    LET i == j \div 2
    IN  IF j = 1 \/ ~Less(h[j], h[i]) THEN h ELSE heapUp(Swap(h, i, j), i)

RECURSIVE heapDown(_, _, _)
heapDown(h, i, n) ==
    LET j1 == 2 * i
        j2 == j1 + 1
        j == IF j2 <= n /\ Less(h[j2], h[j1]) THEN j2 ELSE j1
    IN  IF j1 > n THEN h
        ELSE IF ~Less(h[j], h[i]) THEN h
        ELSE heapDown(Swap(h, i, j), j, n)

\* heap.Push and heap.Pop: the heap after them
heapPush(h, c) == heapUp(Append(h, c), Len(h) + 1)
heapPop(h) == Front(heapDown(Swap(h, 1, Len(h)), 1, Len(h) - 1))

NoUhRet == [op |-> "", chunk |-> <<>>, ok |-> FALSE]

NewUploadHeap ==
    [heap |-> <<>>, stuckHeapChunks |-> {}, unstuckHeapChunks |-> {},
     repairingChunks |-> {}, ret |-> NoUhRet]

\* a push that does not look at the repairing map
pushableAnyway(c) ==
    ChunkID(c) \notin uploadHeap.stuckHeapChunks \cup uploadHeap.unstuckHeapChunks

\* managedPush adds a chunk whose id is in none of the three maps
pushable(c) ==
    ChunkID(c) \notin uploadHeap.stuckHeapChunks \cup uploadHeap.unstuckHeapChunks
                         \cup uploadHeap.repairingChunks

managedPush(c) ==
    /\ Len(uploadHeap.heap) < MaxHeapLen
    /\ IF pushable(c)
       THEN uploadHeap' =
                [uploadHeap EXCEPT
                    !.heap = heapPush(@, c),
                    !.stuckHeapChunks = IF c.stuck THEN @ \cup {ChunkID(c)} ELSE @,
                    !.unstuckHeapChunks = IF c.stuck THEN @ ELSE @ \cup {ChunkID(c)},
                    !.ret = [op |-> "managedPush", chunk |-> c, ok |-> TRUE]]
       ELSE uploadHeap' =
                [uploadHeap EXCEPT !.ret = [op |-> "managedPush", chunk |-> c, ok |-> FALSE]]

\* managedPop: nil from an empty heap, else the top of the heap, which goes
\* from its heap map to the repairing map
managedPop ==
    /\ Cardinality(uploadHeap.repairingChunks) < MaxRepairing
    /\ IF uploadHeap.heap = <<>>
       THEN uploadHeap' = [uploadHeap EXCEPT !.ret = [op |-> "managedPop", chunk |-> <<>>, ok |-> FALSE]]
       ELSE LET c == uploadHeap.heap[1]
            IN  uploadHeap' =
                    [uploadHeap EXCEPT
                        !.heap = heapPop(@),
                        !.stuckHeapChunks = @ \ {ChunkID(c)},
                        !.unstuckHeapChunks = @ \ {ChunkID(c)},
                        !.repairingChunks = @ \cup {ChunkID(c)},
                        !.ret = [op |-> "managedPop", chunk |-> c, ok |-> TRUE]]

\* managedReset: a new heap and new heap maps
managedReset ==
    uploadHeap' = [uploadHeap EXCEPT !.heap = <<>>,
                                     !.stuckHeapChunks = {},
                                     !.unstuckHeapChunks = {},
                                     !.ret = [op |-> "managedReset", chunk |-> <<>>, ok |-> TRUE]]

\* everything but the upload heap
notHeap == <<bytesBufferedPerStream, bufVars, streamVars, ret, panic, lockVars,
             renterStopped, dataSource, delivered, gwVars>>

\* Chunks of every kind pushed in any order, pops and resets between them.
NextHeap ==
    \/ \E c \in Chunks : managedPush(c) /\ UNCHANGED notHeap
    \/ managedPop /\ UNCHANGED notHeap
    \/ managedReset /\ UNCHANGED notHeap

\* ------------------------------------------------------------------- Init
\* newStreamBufferSet: no buffer, no stream
Empty ==
    /\ streams = [id \in SourceIDs \cup ScenarioIDs |-> NoBuf]
    /\ dataSections = [b \in Buffers |-> EmptyMap]
    /\ externRefCount = [b \in Buffers |-> 0]
    /\ staticDataSize = [b \in Buffers |-> 0]
    /\ staticDataSectionSize = [b \in Buffers |-> 0]
    /\ staticStreamID = [b \in Buffers |-> 0]
    /\ readAtCalls = [b \in Buffers |-> EmptyMap]
    /\ pc = [s \in Streams |-> "none"]
    /\ offset = [s \in Streams |-> 0]
    /\ lru = [s \in Streams |-> <<>>]
    /\ lruSize = [s \in Streams |-> 0]
    /\ staticStreamBuffer = [s \in Streams |-> NoBuf]
    /\ todo = [s \in Streams |-> <<>>]
    /\ ret = NoRet
    /\ panic = ""
    /\ sbsMu = NoHolder
    /\ sbMu = [b \in Buffers |-> NoHolder]
    /\ at = [s \in Streams |-> ""]
    /\ mu = [s \in Streams |-> NoHolder]
    /\ caller = NoHolder
    /\ renterStopped = FALSE
    /\ uploadHeap = NewUploadHeap
    /\ dataSource = [b \in Buffers |-> [readAts |-> 0, closed |-> FALSE]]
    /\ delivered = [from |-> 0, data |-> <<>>]
    /\ NewCustomGateway

Init == bytesBufferedPerStream \in BuildChoices /\ Empty

\* a buffer object nothing refers to any more can stand for a new one
FreeBuffers ==
    {b \in Buffers : /\ \A id \in SourceIDs : streams[id] # b
                     /\ \A s \in Streams : staticStreamBuffer[s] # b}
\* the object a new buffer for id gets: the one numbered id when it is free
FreshBuffer(id) ==
    IF id \in FreeBuffers THEN id
    ELSE CHOOSE b \in FreeBuffers : \A c \in FreeBuffers : b <= c

\* the state a stream is in once prepareOffset has nothing left to do
afterPrepare(q, size, rest) ==
    IF rest = <<>> /\ Len(q) <= size THEN "ready" ELSE "prepare"

\* ---------------------------------------------------------- callNewStream
\* a lookup that never finds the buffer
lookupMisses(id) == NoBuf

\* streamBuf, exists := sbs.streams[sourceID]
lookup(id) == streams[id]

\* a count that forgets the stream that joins a buffer
newRefCountForgets(exists, old) == IF exists THEN old ELSE 1

\* externRefCount after callNewStream: a new buffer starts at 0, then ++
newRefCount(exists, old) == IF exists THEN Wrap(old + 1) ELSE 1

\* the critical section of callNewStream and the making of the stream
callNewStream(s, id, requestSize, initialOffset) ==
    LET exists == lookup(id) # NoBuf
        b == IF exists THEN lookup(id) ELSE FreshBuffer(id)
        sectionSize == IF exists THEN staticDataSectionSize[b] ELSE requestSize
        dataSize == IF exists THEN staticDataSize[b] ELSE DataSize(id)
        size == dataSectionsToCache(bytesBufferedPerStream, sectionSize)
        rest == prepareOffset(initialOffset, dataSize, sectionSize)
    IN  /\ panic = ""
        /\ pc[s] = "none"
        /\ exists \/ FreeBuffers # {}
        /\ IF exists
           THEN /\ externRefCount' = [externRefCount EXCEPT ![b] = newRefCount(TRUE, @)]
                /\ UNCHANGED <<streams, dataSections, staticDataSize,
                               staticDataSectionSize, staticStreamID, readAtCalls>>
           ELSE /\ streams' = [streams EXCEPT ![id] = b]
                /\ dataSections' = [dataSections EXCEPT ![b] = EmptyMap]
                /\ readAtCalls' = [readAtCalls EXCEPT ![b] = EmptyMap]
                /\ externRefCount' = [externRefCount EXCEPT ![b] = newRefCount(FALSE, 0)]
                /\ staticDataSize' = [staticDataSize EXCEPT ![b] = DataSize(id)]
                /\ staticDataSectionSize' = [staticDataSectionSize EXCEPT ![b] = requestSize]
                /\ staticStreamID' = [staticStreamID EXCEPT ![b] = id]
        /\ lruSize' = [lruSize EXCEPT ![s] = size]
        /\ lru' = [lru EXCEPT ![s] = <<>>]
        /\ offset' = [offset EXCEPT ![s] = initialOffset]
        /\ staticStreamBuffer' = [staticStreamBuffer EXCEPT ![s] = b]
        /\ todo' = [todo EXCEPT ![s] = rest]
        /\ pc' = [pc EXCEPT ![s] = afterPrepare(<<>>, size, rest)]
        /\ ret' = [NoRet EXCEPT !.s = s, !.op = "callNewStream", !.pos = initialOffset,
                                !.buf = b, !.argCloses = IF exists THEN 1 ELSE 0]
        /\ UNCHANGED <<bytesBufferedPerStream, panic>>

\* ------------------------------------------------------- lru.callUpdate
\* One index of prepareOffset's list: a known index moves to the front; a new
\* one is fetched from the buffer and put in front.
callUpdate(s) ==
    LET b == staticStreamBuffer[s]
        index == Head(todo[s])
        rest == Tail(todo[s])
        hit == <<index>> \o Without(lru[s], index)
        miss == <<index>> \o lru[s]
    IN  /\ panic = ""
        /\ pc[s] = "prepare"
        /\ Len(lru[s]) <= lruSize[s]
        /\ todo[s] # <<>>
        /\ ret' = NoRet
        /\ IF InSeq(lru[s], index)
           THEN /\ lru' = [lru EXCEPT ![s] = hit]
                /\ todo' = [todo EXCEPT ![s] = rest]
                /\ pc' = [pc EXCEPT ![s] = afterPrepare(hit, lruSize[s], rest)]
                /\ UNCHANGED <<dataSections, readAtCalls, panic>>
           ELSE IF fetchPanics(b, index)
           THEN /\ panic' = "makeslice: len out of range"
                /\ UNCHANGED <<dataSections, readAtCalls, lru, todo, pc>>
           ELSE /\ callFetchDataSection(b, index)
                /\ lru' = [lru EXCEPT ![s] = miss]
                /\ todo' = [todo EXCEPT ![s] = rest]
                /\ pc' = [pc EXCEPT ![s] = afterPrepare(miss, lruSize[s], rest)]
                /\ UNCHANGED panic
        /\ UNCHANGED <<bytesBufferedPerStream, streams, externRefCount,
                       staticDataSize, staticDataSectionSize, staticStreamID,
                       offset, lruSize, staticStreamBuffer>>

\* the eldest index leaves an lru that grew beyond its capacity
callEvict(s) ==
    LET b == staticStreamBuffer[s]
        index == Last(lru[s])
    IN  /\ panic = ""
        /\ pc[s] = "prepare"
        /\ Len(lru[s]) > lruSize[s]
        /\ ret' = NoRet
        /\ IF removePanics(b, index)
           THEN /\ panic' = "remove called on data section that does not exist"
                /\ UNCHANGED <<dataSections, readAtCalls, lru, pc>>
           ELSE /\ callRemoveDataSection(b, index)
                /\ lru' = [lru EXCEPT ![s] = Front(@)]
                /\ pc' = [pc EXCEPT ![s] = afterPrepare(Front(lru[s]), lruSize[s], todo[s])]
                /\ UNCHANGED panic
        /\ UNCHANGED <<bytesBufferedPerStream, streams, externRefCount,
                       staticDataSize, staticDataSectionSize, staticStreamID,
                       offset, lruSize, staticStreamBuffer, todo>>

\* ------------------------------------------------------------------- Seek
\* a Seek that takes the distance from the end for the offset
seekToEndAsStart(cur, dataSize, off, whence) ==
    IF off < 0 \/ whence \notin {SeekStart, SeekCurrent, SeekEnd}
    THEN [ok |-> FALSE, offset |-> cur]
    ELSE IF whence = SeekCurrent /\ Wrap(cur + off) > dataSize
    THEN [ok |-> FALSE, offset |-> cur]
    ELSE IF whence = SeekEnd /\ off > dataSize
    THEN [ok |-> FALSE, offset |-> cur]
    ELSE [ok |-> TRUE, offset |-> IF whence = SeekCurrent THEN Wrap(cur + off) ELSE off]

\* a Seek that does not look at the sign of the offset
seekToUnsigned(cur, dataSize, off, whence) ==
    IF whence = SeekStart THEN [ok |-> TRUE, offset |-> Wrap(off)]
    ELSE IF whence = SeekCurrent
         THEN IF Wrap(cur + off) > dataSize
              THEN [ok |-> FALSE, offset |-> cur]
              ELSE [ok |-> TRUE, offset |-> Wrap(cur + off)]
    ELSE IF whence = SeekEnd
         THEN IF Wrap(off) > dataSize
              THEN [ok |-> FALSE, offset |-> cur]
              ELSE [ok |-> TRUE, offset |-> Wrap(dataSize - off)]
    ELSE [ok |-> FALSE, offset |-> cur]

\* the offset Seek moves to, or its refusal
seekTo(cur, dataSize, off, whence) ==
    IF off < 0 THEN [ok |-> FALSE, offset |-> cur]
    ELSE IF whence = SeekStart THEN [ok |-> TRUE, offset |-> off]
    ELSE IF whence = SeekCurrent
         THEN IF Wrap(cur + off) > dataSize
              THEN [ok |-> FALSE, offset |-> cur]
              ELSE [ok |-> TRUE, offset |-> Wrap(cur + off)]
    ELSE IF whence = SeekEnd
         THEN IF off > dataSize
              THEN [ok |-> FALSE, offset |-> cur]
              ELSE [ok |-> TRUE, offset |-> dataSize - off]
    ELSE [ok |-> FALSE, offset |-> cur]

Seek(s, off, whence) ==
    LET b == staticStreamBuffer[s]
        r == seekTo(offset[s], staticDataSize[b], off, whence)
        rest == prepareOffset(r.offset, staticDataSize[b], staticDataSectionSize[b])
    IN  /\ panic = ""
        /\ pc[s] = "ready"
        /\ IF r.ok
           THEN /\ offset' = [offset EXCEPT ![s] = r.offset]
                /\ todo' = [todo EXCEPT ![s] = rest]
                /\ pc' = [pc EXCEPT ![s] = afterPrepare(lru[s], lruSize[s], rest)]
                /\ ret' = [NoRet EXCEPT !.s = s, !.op = "Seek", !.arg = off,
                                        !.whence = whence, !.buf = b,
                                        !.pos = Int64(r.offset)]
           ELSE /\ ret' = [NoRet EXCEPT !.s = s, !.op = "Seek", !.arg = off,
                                        !.whence = whence, !.buf = b,
                                        !.err = "seek", !.pos = Int64(offset[s])]
                /\ UNCHANGED <<offset, todo, pc>>
        /\ UNCHANGED <<bytesBufferedPerStream, bufVars, lru, lruSize,
                       staticStreamBuffer, panic>>

\* ------------------------------------------------------------------- Read
currentSection(s) == offset[s] \div staticDataSectionSize[staticStreamBuffer[s]]
\* a Read that always starts at the head of the section
offsetInSectionZero(s) == 0

offsetInSection(s) == offset[s] % staticDataSectionSize[staticStreamBuffer[s]]

\* a count of the bytes left that stops at the section's end only
bytesRemainingInSection(s) ==
    staticDataSectionSize[staticStreamBuffer[s]] - offsetInSection(s)

bytesRemaining(s) ==
    LET b == staticStreamBuffer[s]
        lastSection == (currentSection(s) + 1) * staticDataSectionSize[b] >= staticDataSize[b]
    IN  IF ~lastSection
        THEN staticDataSectionSize[b] - offsetInSection(s)
        ELSE Wrap(staticDataSize[b] - offset[s])

bytesToRead(s, len) ==
    IF bytesRemaining(s) > len THEN len ELSE bytesRemaining(s)

\* a managedData that does not wait
managedDataNoWait(b, index) == TRUE

\* managedData blocks until dataAvailable is closed
managedDataReady(b, index) == dataSections[b][index].dataAvailable

\* an error that any failed section of the buffer gives to every section
managedDataErrOfAny(b, index) ==
    \E j \in DOMAIN dataSections[b] : dataSections[b][j].externErr

\* the error managedData returns for the section
managedDataErr(b, index) == dataSections[b][index].externErr

\* a check for the end of the data that never answers yes
atEOFNever(s) == FALSE

\* "Check for EOF."
atEOF(s) == offset[s] = staticDataSize[staticStreamBuffer[s]]

\* Read, taken when managedData does not block: at the end of the data, on a
\* missing section, or once the section's dataAvailable is closed
Read(s, len) ==
    LET b == staticStreamBuffer[s]
        lo == offsetInSection(s)
        hi == Wrap(lo + bytesToRead(s, len))
        n == Min(len, hi - lo)
        newOffset == Wrap(offset[s] + n)
        rest == prepareOffset(newOffset, staticDataSize[b], staticDataSectionSize[b])
    IN  /\ panic = ""
        /\ pc[s] = "ready"
        /\ IF atEOF(s)
           THEN /\ ret' = [NoRet EXCEPT !.s = s, !.op = "Read", !.len = len, !.buf = b,
                                        !.err = "EOF", !.pos = offset[s]]
                /\ UNCHANGED <<pc, offset, todo, panic>>
           ELSE IF currentSection(s) \notin DOMAIN dataSections[b]
           THEN /\ panic' = "data section should always in the stream buffer"
                /\ ret' = NoRet
                /\ UNCHANGED <<pc, offset, todo>>
           ELSE LET ds == dataSections[b][currentSection(s)]
                IN  /\ managedDataReady(b, currentSection(s))
                    /\ IF managedDataErr(b, currentSection(s))
                       THEN /\ ret' = [NoRet EXCEPT !.s = s, !.op = "Read", !.len = len,
                                          !.buf = b, !.err = "fetch", !.pos = offset[s]]
                            /\ UNCHANGED <<pc, offset, todo, panic>>
                       ELSE IF lo > hi \/ hi > Len(ds.externData)
                       THEN /\ panic' = "slice bounds out of range"
                            /\ ret' = NoRet
                            /\ UNCHANGED <<pc, offset, todo>>
                       ELSE /\ offset' = [offset EXCEPT ![s] = newOffset]
                            /\ todo' = [todo EXCEPT ![s] = rest]
                            /\ pc' = [pc EXCEPT ![s] = afterPrepare(lru[s], lruSize[s], rest)]
                            /\ ret' = [NoRet EXCEPT !.s = s, !.op = "Read", !.len = len,
                                          !.buf = b, !.n = n,
                                          !.data = SubSeq(ds.externData, lo + 1, lo + n),
                                          !.pos = newOffset]
                            /\ UNCHANGED panic
        /\ UNCHANGED <<bytesBufferedPerStream, bufVars, lru, lruSize, staticStreamBuffer>>

\* ------------------------------------------------------------------ Close
\* lru.callEvictAll releases the indices one by one
callEvictAll(s) ==
    LET b == staticStreamBuffer[s]
        index == Last(lru[s])
    IN  /\ panic = ""
        /\ pc[s] \in {"ready", "closing"}
        /\ lru[s] # <<>>
        /\ ret' = NoRet
        /\ pc' = [pc EXCEPT ![s] = "closing"]
        /\ IF removePanics(b, index)
           THEN /\ panic' = "remove called on data section that does not exist"
                /\ UNCHANGED <<dataSections, readAtCalls, lru>>
           ELSE /\ callRemoveDataSection(b, index)
                /\ lru' = [lru EXCEPT ![s] = Front(@)]
                /\ UNCHANGED panic
        /\ UNCHANGED <<bytesBufferedPerStream, streams, externRefCount,
                       staticDataSize, staticDataSectionSize, staticStreamID,
                       offset, lruSize, staticStreamBuffer, todo>>

\* a check that gives the buffer up one stream early
stillInUseOffByOne(rc) == rc > 1

\* "streamBuffer still in use, nothing to do"
stillInUse(rc) == rc > 0

managedRemoveStream(s) ==
    LET b == staticStreamBuffer[s]
        rc == Wrap(externRefCount[b] - 1)
        \* a buffer that left the set and that no stream points to is garbage
        garbage == ~stillInUse(rc) /\ \A t \in Streams \ {s} : staticStreamBuffer[t] # b
    IN  /\ panic = ""
        /\ pc[s] \in {"ready", "closing"}
        /\ lru[s] = <<>>
        /\ externRefCount' = [externRefCount EXCEPT ![b] = rc]
        /\ IF stillInUse(rc)
           THEN UNCHANGED streams
           ELSE streams' = [streams EXCEPT ![staticStreamID[b]] = NoBuf]
        /\ IF garbage
           THEN /\ dataSections' = [dataSections EXCEPT ![b] = EmptyMap]
                /\ readAtCalls' = [readAtCalls EXCEPT ![b] = EmptyMap]
                /\ staticDataSize' = [staticDataSize EXCEPT ![b] = 0]
                /\ staticDataSectionSize' = [staticDataSectionSize EXCEPT ![b] = 0]
                /\ staticStreamID' = [staticStreamID EXCEPT ![b] = 0]
           ELSE UNCHANGED <<dataSections, readAtCalls, staticDataSize,
                            staticDataSectionSize, staticStreamID>>
        /\ pc' = [pc EXCEPT ![s] = "none"]
        /\ offset' = [offset EXCEPT ![s] = 0]
        /\ lruSize' = [lruSize EXCEPT ![s] = 0]
        /\ staticStreamBuffer' = [staticStreamBuffer EXCEPT ![s] = NoBuf]
        /\ ret' = [NoRet EXCEPT !.s = s, !.op = "Close", !.buf = b,
                                !.srcCloses = IF stillInUse(rc) THEN 0 ELSE 1]
        /\ UNCHANGED <<bytesBufferedPerStream, lru, todo, panic>>

\* ------------------------------------------------- the fetch goroutines
\* the goroutine of newDataSection: ReadAt returns, the data is published
fetchReturn(b, index, ok) ==
    /\ panic = ""
    /\ index \in DOMAIN dataSections[b]
    /\ ~dataSections[b][index].dataAvailable
    /\ dataSections[b][index].fetchPc = "ReadAt"
    /\ dataSections' = [dataSections EXCEPT ![b][index] =
           [@ EXCEPT !.dataAvailable = TRUE,
                     !.fetchPc = "done",
                     !.externErr = ~ok,
                     !.externData = IF ok
                         THEN ReadAt(staticStreamID[b], index * staticDataSectionSize[b], Len(@))
                         ELSE @]]
    /\ ret' = NoRet
    /\ UNCHANGED <<bytesBufferedPerStream, streams, externRefCount,
                   staticDataSize, staticDataSectionSize, staticStreamID,
                   readAtCalls, streamVars, panic>>

\* The same goroutine in two steps. First ReadAt returns: it has filled
\* externData, and its error is stored in externErr.
fetchReadAt(b, index, ok) ==
    /\ panic = ""
    /\ index \in DOMAIN dataSections[b]
    /\ dataSections[b][index].fetchPc = "ReadAt"
    /\ dataSections' = [dataSections EXCEPT ![b][index] =
           [@ EXCEPT !.fetchPc = "close",
                     !.externErr = ~ok,
                     !.externData = IF ok
                         THEN ReadAt(staticStreamID[b], index * staticDataSectionSize[b], Len(@))
                         ELSE @]]
    /\ ret' = NoRet
    /\ UNCHANGED <<bytesBufferedPerStream, streams, externRefCount,
                   staticDataSize, staticDataSectionSize, staticStreamID,
                   readAtCalls, streamVars, panic>>

\* a goroutine that closes dataAvailable before ReadAt has returned
fetchCloseEarly(b, index) ==
    /\ panic = ""
    /\ index \in DOMAIN dataSections[b]
    /\ ~dataSections[b][index].dataAvailable
    /\ dataSections' = [dataSections EXCEPT ![b][index].dataAvailable = TRUE]
    /\ ret' = NoRet
    /\ UNCHANGED <<bytesBufferedPerStream, streams, externRefCount,
                   staticDataSize, staticDataSectionSize, staticStreamID,
                   readAtCalls, streamVars, panic>>

\* then close(ds.dataAvailable)
fetchClose(b, index) ==
    /\ panic = ""
    /\ index \in DOMAIN dataSections[b]
    /\ dataSections[b][index].fetchPc = "close"
    /\ dataSections' = [dataSections EXCEPT ![b][index] =
           [@ EXCEPT !.dataAvailable = TRUE, !.fetchPc = "done"]]
    /\ ret' = NoRet
    /\ UNCHANGED <<bytesBufferedPerStream, streams, externRefCount,
                   staticDataSize, staticDataSectionSize, staticStreamID,
                   readAtCalls, streamVars, panic>>

\* ------------------------------------------------------------------- Next
Whences == {SeekStart, SeekCurrent, SeekEnd, 3}

\* the offsets a caller seeks with: from -under to over beyond the data
SeekOffsets(s, under, over) ==
    IF staticStreamBuffer[s] = NoBuf THEN {}
    ELSE (0 - under)..(staticDataSize[staticStreamBuffer[s]] + over)

\* the steps of the streams S, their callers' inputs drawn from the given sets
Step(S, under, over, whences, lens, oks) ==
    \/ \E s \in S, id \in SourceIDs, r \in RequestSizes :
           \E o \in 0..(DataSize(id) + over) : callNewStream(s, id, r, o) /\ UNCHANGED <<lockVars, outerVars>>
    \/ \E s \in S : callUpdate(s) /\ UNCHANGED <<lockVars, outerVars>>
    \/ \E s \in S : callEvict(s) /\ UNCHANGED <<lockVars, outerVars>>
    \/ \E s \in S : \E o \in SeekOffsets(s, under, over), w \in whences : Seek(s, o, w) /\ UNCHANGED <<lockVars, outerVars>>
    \/ \E s \in S, len \in lens : Read(s, len) /\ UNCHANGED <<lockVars, outerVars>>
    \/ \E s \in S : callEvictAll(s) /\ UNCHANGED <<lockVars, outerVars>>
    \/ \E s \in S : managedRemoveStream(s) /\ UNCHANGED <<lockVars, outerVars>>
    \/ \E b \in Buffers : \E i \in DOMAIN dataSections[b], ok \in oks : fetchReturn(b, i, ok) /\ UNCHANGED <<lockVars, outerVars>>

\* Two streams on sources that do not fail: the streams share a buffer or use
\* two. Seeks are absolute and within the data.
Next == Step(Streams, 0, 0, {SeekStart}, 1..MaxReadLen, {TRUE})

Spec == Init /\ [][Next]_vars

\* One stream, every kind of input (offsets before the start and beyond the
\* end of the data included), sources that may fail, and builds that buffer
\* two or three sections of one byte.
NextOne == Step({1}, 1, MaxOverrun, Whences, 0..MaxReadLen, BOOLEAN)

InitOne == bytesBufferedPerStream \in BuildChoicesOne /\ Empty

SpecOne == InitOne /\ [][NextOne]_vars

\* The eviction scenario: one stream opened at offset 0 that seeks from
\* section to section (or to where it is), and is closed and opened again.
InitLRU == bytesBufferedPerStream = ScenarioBytesPerStream /\ Empty

NextLRU ==
    \/ \E id \in ScenarioIDs : callNewStream(1, id, ScenarioSectionSize, 0) /\ UNCHANGED <<lockVars, outerVars>>
    \/ callUpdate(1) /\ UNCHANGED <<lockVars, outerVars>>
    \/ callEvict(1) /\ UNCHANGED <<lockVars, outerVars>>
    \/ \E o \in {offset[1], offset[1] + ScenarioSectionSize} :
           /\ o <= 5 * ScenarioSectionSize
           /\ Seek(1, o, SeekStart) /\ UNCHANGED <<lockVars, outerVars>>
    \/ callEvictAll(1) /\ UNCHANGED <<lockVars, outerVars>>
    \/ managedRemoveStream(1) /\ UNCHANGED <<lockVars, outerVars>>
    \/ \E b \in Buffers : \E i \in DOMAIN dataSections[b] : fetchReturn(b, i, TRUE) /\ UNCHANGED <<lockVars, outerVars>>

SpecLRU == InitLRU /\ [][NextLRU]_vars

\* Two streams on source 1, whose ReadAt may fail.
NextErr ==
    \/ \E s \in Streams, r \in RequestSizes :
           \E o \in 0..DataSize(1) : callNewStream(s, 1, r, o) /\ UNCHANGED <<lockVars, outerVars>>
    \/ \E s \in Streams : callUpdate(s) /\ UNCHANGED <<lockVars, outerVars>>
    \/ \E s \in Streams : callEvict(s) /\ UNCHANGED <<lockVars, outerVars>>
    \/ \E s \in Streams : \E o \in SeekOffsets(s, 0, 0) : Seek(s, o, SeekStart) /\ UNCHANGED <<lockVars, outerVars>>
    \/ \E s \in Streams, len \in 1..MaxReadLen : Read(s, len) /\ UNCHANGED <<lockVars, outerVars>>
    \/ \E s \in Streams : callEvictAll(s) /\ UNCHANGED <<lockVars, outerVars>>
    \/ \E s \in Streams : managedRemoveStream(s) /\ UNCHANGED <<lockVars, outerVars>>
    \/ \E b \in Buffers : \E i \in DOMAIN dataSections[b], ok \in BOOLEAN :
           fetchReturn(b, i, ok) /\ UNCHANGED <<lockVars, outerVars>>

SpecErr == Init /\ [][NextErr]_vars

\* Two streams on source 2, the fetch goroutines taken step by step. The
\* source has no more sections than a cache holds, so nothing is evicted.
NextFetch ==
    \/ \E s \in Streams, r \in RequestSizes : callNewStream(s, 2, r, 0) /\ UNCHANGED <<lockVars, outerVars>>
    \/ \E s \in Streams : callUpdate(s) /\ UNCHANGED <<lockVars, outerVars>>
    \/ \E s \in Streams : \E o \in SeekOffsets(s, 0, 0) : Seek(s, o, SeekStart) /\ UNCHANGED <<lockVars, outerVars>>
    \/ \E s \in Streams, len \in 1..MaxReadLen : Read(s, len) /\ UNCHANGED <<lockVars, outerVars>>
    \/ \E s \in Streams : callEvictAll(s) /\ UNCHANGED <<lockVars, outerVars>>
    \/ \E s \in Streams : managedRemoveStream(s) /\ UNCHANGED <<lockVars, outerVars>>
    \/ \E b \in Buffers : \E i \in DOMAIN dataSections[b], ok \in BOOLEAN :
           fetchReadAt(b, i, ok) /\ UNCHANGED <<lockVars, outerVars>>
    \/ \E b \in Buffers : \E i \in DOMAIN dataSections[b] : fetchClose(b, i) /\ UNCHANGED <<lockVars, outerVars>>

SpecFetch == Init /\ [][NextFetch]_vars

\* The documented examples: one stream on a source asked for in sections of
\* 10 or of 50, which seeks forward in steps of 50.
InitDoc == bytesBufferedPerStream = DocBytesPerStream /\ Empty

NextDoc ==
    \/ \E r \in DocRequestSizes : callNewStream(1, 3, r, 0) /\ UNCHANGED <<lockVars, outerVars>>
    \/ callUpdate(1) /\ UNCHANGED <<lockVars, outerVars>>
    \/ callEvict(1) /\ UNCHANGED <<lockVars, outerVars>>
    \/ \E o \in {offset[1], offset[1] + 50} :
           /\ o <= DataSize(3)
           /\ Seek(1, o, SeekStart) /\ UNCHANGED <<lockVars, outerVars>>
    \/ callEvictAll(1) /\ UNCHANGED <<lockVars, outerVars>>
    \/ managedRemoveStream(1) /\ UNCHANGED <<lockVars, outerVars>>
    \/ \E b \in Buffers : \E i \in DOMAIN dataSections[b] : fetchReturn(b, i, TRUE) /\ UNCHANGED <<lockVars, outerVars>>

SpecDoc == InitDoc /\ [][NextDoc]_vars

\* ------------------------------------------------------------- the locks
\* The operations of a stream's owner once more, each Lock() a step of its
\* own; the step that follows it is the critical section up to its Unlock().

\* sbs.mu.Lock() of callNewStream and of managedRemoveStream
sbsLock(s) ==
    /\ panic = ""
    /\ at[s] = ""
    /\ \/ pc[s] = "none"
       \/ pc[s] \in {"ready", "closing"} /\ lru[s] = <<>>
    /\ sbsMu = NoHolder
    /\ sbsMu' = s
    /\ at' = [at EXCEPT ![s] = "sbs.mu"]
    /\ ret' = NoRet
    /\ UNCHANGED <<bytesBufferedPerStream, bufVars, streamVars, panic, sbMu, mu, caller>>

\* callNewStream from below its Lock(): Unlock() comes before prepareOffset
lockedNewStream(s, id, requestSize, initialOffset) ==
    /\ at[s] = "sbs.mu"
    /\ sbsMu = s
    /\ callNewStream(s, id, requestSize, initialOffset)
    /\ sbsMu' = NoHolder
    /\ at' = [at EXCEPT ![s] = ""]
    /\ UNCHANGED <<sbMu, mu, caller>>

\* managedRemoveStream from below its Lock() to its deferred Unlock()
lockedRemoveStream(s) ==
    /\ at[s] = "sbs.mu"
    /\ sbsMu = s
    /\ managedRemoveStream(s)
    /\ sbsMu' = NoHolder
    /\ at' = [at EXCEPT ![s] = ""]
    /\ UNCHANGED <<sbMu, mu, caller>>

\* sb.mu.Lock() of callFetchDataSection, of callRemoveDataSection and of Read
sbLock(s) ==
    LET b == staticStreamBuffer[s]
    IN  /\ panic = ""
        /\ at[s] = ""
        /\ \/ pc[s] = "prepare"
           \/ pc[s] = "ready" /\ (lru[s] # <<>> \/ ~atEOF(s))
           \/ pc[s] = "closing" /\ lru[s] # <<>>
        /\ sbMu[b] = NoHolder
        /\ sbMu' = [sbMu EXCEPT ![b] = s]
        /\ at' = [at EXCEPT ![s] = "sb.mu"]
        /\ ret' = NoRet
        /\ UNCHANGED <<bytesBufferedPerStream, bufVars, streamVars, panic, sbsMu, mu, caller>>

\* the deferred Unlock() of callFetchDataSection and callRemoveDataSection
sbUnlock(s) ==
    /\ sbMu[staticStreamBuffer[s]] = s
    /\ sbMu' = [sbMu EXCEPT ![staticStreamBuffer[s]] = NoHolder]
    /\ at' = [at EXCEPT ![s] = ""]
    /\ UNCHANGED <<sbsMu, mu, caller>>

lockedUpdate(s) == at[s] = "sb.mu" /\ callUpdate(s) /\ sbUnlock(s)

lockedEvict(s) == at[s] = "sb.mu" /\ callEvict(s) /\ sbUnlock(s)

lockedEvictAll(s) == at[s] = "sb.mu" /\ callEvictAll(s) /\ sbUnlock(s)

\* a Read that keeps sb.mu while it is in managedData
readKeepsLock(s) == s

\* Read unlocks sb.mu as soon as it has looked its section up
readUnlock(s) == NoHolder

\* Read from sb.mu.Lock() to sb.mu.Unlock(): the look-up of its section
readLookup(s) ==
    /\ panic = ""
    /\ at[s] = "sb.mu"
    /\ pc[s] = "ready"
    /\ ~atEOF(s)
    /\ sbMu[staticStreamBuffer[s]] = s
    /\ sbMu' = [sbMu EXCEPT ![staticStreamBuffer[s]] = readUnlock(s)]
    /\ at' = [at EXCEPT ![s] = "managedData"]
    /\ ret' = NoRet
    /\ UNCHANGED <<bytesBufferedPerStream, bufVars, streamVars, panic, sbsMu, mu, caller>>

\* the rest of Read: managedData and the copy
readData(s, len) ==
    /\ at[s] = "managedData"
    /\ Read(s, len)
    /\ at' = [at EXCEPT ![s] = ""]
    /\ UNCHANGED <<sbsMu, sbMu, mu, caller>>

\* a Read at the end of the data returns before any lock of the buffer
readEOF(s, len) == at[s] = "" /\ pc[s] = "ready" /\ atEOF(s) /\ Read(s, len) /\ UNCHANGED <<lockVars, outerVars>>

\* Seek takes no lock of the buffer or the set before prepareOffset
unlockedSeek(s, off) == at[s] = "" /\ Seek(s, off, SeekStart) /\ UNCHANGED <<lockVars, outerVars>>

\* the steps of the owner of stream s
ThreadStep(s) ==
    \/ sbsLock(s) /\ UNCHANGED outerVars
    \/ \E id \in SourceIDs : lockedNewStream(s, id, 1, 0) /\ UNCHANGED outerVars
    \/ lockedRemoveStream(s) /\ UNCHANGED outerVars
    \/ sbLock(s) /\ UNCHANGED outerVars
    \/ lockedUpdate(s) /\ UNCHANGED outerVars
    \/ lockedEvict(s) /\ UNCHANGED outerVars
    \/ lockedEvictAll(s) /\ UNCHANGED outerVars
    \/ readLookup(s) /\ UNCHANGED outerVars
    \/ \E len \in 1..MaxReadLen : readData(s, len) /\ UNCHANGED outerVars
    \/ \E len \in 1..MaxReadLen : readEOF(s, len) /\ UNCHANGED outerVars
    \/ \E o \in SeekOffsets(s, 0, 0) : unlockedSeek(s, o) /\ UNCHANGED outerVars

\* Two streams on one or two buffers of one-byte sections, and the fetch
\* goroutines, which take no lock.
NextLock ==
    \/ \E s \in Streams : ThreadStep(s)
    \/ \E b \in Buffers : \E i \in DOMAIN dataSections[b] :
           fetchReturn(b, i, TRUE) /\ UNCHANGED <<lockVars, outerVars>>

SpecLock == Init /\ [][NextLock]_vars

\* --------------------------------------------------------- the stream lock
\* The goroutines that call into one stream: the Owner, whose operations pc
\* follows, and an Other one that calls Seek at any time.
Owner == 1
Other == 2

\* s.mu.Lock() at the head of Read, and of Seek once its offset has passed
\* the input check
muLock(s) ==
    /\ panic = ""
    /\ at[s] = ""
    /\ pc[s] = "ready"
    /\ mu[s] = NoHolder
    /\ mu' = [mu EXCEPT ![s] = Owner]
    /\ at' = [at EXCEPT ![s] = "s.mu"]
    /\ ret' = NoRet
    /\ UNCHANGED <<bytesBufferedPerStream, bufVars, streamVars, panic, sbsMu, sbMu, caller>>

\* the deferred s.mu.Unlock(): it runs when the operation returns, which is
\* when prepareOffset has no index left
muUnlock(s) ==
    /\ mu' = [mu EXCEPT ![s] = IF pc'[s] = "prepare" THEN @ ELSE NoHolder]
    /\ at' = [at EXCEPT ![s] = IF pc'[s] = "prepare" /\ mu[s] = Owner THEN "s.mu" ELSE ""]
    /\ UNCHANGED <<sbsMu, sbMu>>

muRead(s, len) == at[s] = "s.mu" /\ Read(s, len) /\ caller' = Owner /\ muUnlock(s)

muSeek(s, off, whence) ==
    at[s] = "s.mu" /\ off >= 0 /\ Seek(s, off, whence) /\ caller' = Owner /\ muUnlock(s)

\* prepareOffset, under s.mu when Read or Seek calls it and under no lock of
\* the stream when callNewStream does
muUpdate(s) == callUpdate(s) /\ UNCHANGED caller /\ muUnlock(s)

muEvict(s) == callEvict(s) /\ UNCHANGED caller /\ muUnlock(s)

\* Seek with a negative offset: it returns int64(s.offset) from above
\* s.mu.Lock(), whatever the Owner is doing to the stream
seekNegative(s, off, whence) ==
    /\ panic = ""
    /\ off < 0
    /\ pc[s] = "ready" \/ (pc[s] = "prepare" /\ mu[s] = Owner)
    /\ ret' = [NoRet EXCEPT !.s = s, !.op = "Seek", !.arg = off,
                            !.whence = whence, !.buf = staticStreamBuffer[s],
                            !.err = "seek", !.pos = Int64(offset[s])]
    /\ caller' = Other
    /\ UNCHANGED <<bytesBufferedPerStream, bufVars, streamVars, panic,
                   sbsMu, sbMu, at, mu>>

\* One stream, its Owner and the Other caller.
NextRace ==
    \/ \E id \in SourceIDs, r \in RequestSizes :
           \E o \in 0..DataSize(id) : callNewStream(1, id, r, o) /\ UNCHANGED <<lockVars, outerVars>>
    \/ muLock(1) /\ UNCHANGED outerVars
    \/ \E len \in 1..MaxReadLen : muRead(1, len) /\ UNCHANGED outerVars
    \/ \E o \in SeekOffsets(1, 0, 0), w \in Whences : muSeek(1, o, w) /\ UNCHANGED outerVars
    \/ muUpdate(1) /\ UNCHANGED outerVars
    \/ muEvict(1) /\ UNCHANGED outerVars
    \/ \E w \in Whences : seekNegative(1, 0 - 1, w) /\ UNCHANGED outerVars
    \/ at[1] = "" /\ callEvictAll(1) /\ UNCHANGED <<lockVars, outerVars>>
    \/ at[1] = "" /\ managedRemoveStream(1) /\ UNCHANGED <<lockVars, outerVars>>
    \/ \E b \in Buffers : \E i \in DOMAIN dataSections[b] :
           fetchReturn(b, i, TRUE) /\ UNCHANGED <<lockVars, outerVars>>

SpecRace == Init /\ [][NextRace]_vars

\* ------------------------------------------------------------ gateway API
sbAll == <<bytesBufferedPerStream, bufVars, streamVars, ret, panic, lockVars, renterStopped, uploadHeap, dataSource, delivered>>
dataVars == <<blacklist, peers, nodes, sessOpen, inbound, rl, persist, saved>>
shutVars == <<closePc, onStopLeft, afterStopLeft, loops, listenerOpen, logOpen>>

\* the goroutine that calls Close
Closer == 3

Ops == {"AddToBlacklist", "RemoveFromBlacklist", "SetBlacklist", "Blacklist",
        "ForwardPort", "SetRateLimits", "RateLimits"}

\* the calls that begin with threads.Add
addsThread(op) == op \in {"AddToBlacklist", "RemoveFromBlacklist", "SetBlacklist",
                          "Blacklist", "ForwardPort"}

\* a Blacklist() that takes no lock
readLocksNever(op) == FALSE

\* the calls that take g.mu.RLock, the calls that take g.mu.Lock
readLocks(op) == op \in {"Blacklist", "RateLimits"}
writeLocks(op) == op \in {"AddToBlacklist", "RemoveFromBlacklist", "SetBlacklist", "SetRateLimits"}

\* the head of an API call: threads.Add, which fails once Stop has begun
apiCall(c, op, addrs, down, up) ==
    /\ call[c].pc = "idle"
    /\ IF addsThread(op) /\ threads.stopped
       THEN /\ gret' = [NoGret EXCEPT !.c = c, !.op = op, !.args = addrs, !.err = "stopped"]
            /\ UNCHANGED <<threads, call>>
       ELSE /\ gret' = NoGret
            /\ threads' = [threads EXCEPT !.count = IF addsThread(op) THEN @ + 1 ELSE @]
            /\ call' = [call EXCEPT ![c] =
                   [NoCall EXCEPT !.op = op, !.args = addrs, !.addrs = addrs,
                                  !.down = down, !.up = up,
                                  !.admitted = addsThread(op),
                                  !.pc = IF readLocks(op) \/ writeLocks(op) THEN "lock" ELSE "body"]]
    /\ UNCHANGED <<dataVars, gmu, peerTG, shutVars>>

\* g.mu.Lock() or g.mu.RLock()
apiLock(c) ==
    /\ call[c].pc = "lock"
    /\ IF readLocks(call[c].op)
       THEN gmu.w = NoHolder /\ gmu' = [gmu EXCEPT !.r = @ \cup {c}]
       ELSE gmu.w = NoHolder /\ gmu.r = {} /\ gmu' = [gmu EXCEPT !.w = c]
    /\ call' = [call EXCEPT ![c].pc = IF call[c].op = "AddToBlacklist" THEN "add" ELSE "body",
                            ![c].old = blacklist]
    /\ gret' = NoGret
    /\ UNCHANGED <<dataVars, threads, peerTG, shutVars>>

\* an addToBlacklist that disconnects no one
peersAtNone(addr) == {}

\* the peers addToBlacklist disconnects for one address: g.peers[addr]
peersAt(addr) == {addr}

\* one turn of the loop of addToBlacklist
addToBlacklist(c) ==
    LET addr == Head(call[c].addrs)
        gone == peersAt(addr)
    IN  /\ call[c].pc = "add"
        /\ call[c].addrs # <<>>
        /\ sessOpen' = sessOpen \ (gone \cap peers)
        /\ inbound' = inbound \ gone
        /\ peerTG' = [peerTG EXCEPT !.count = @ - Cardinality(gone \cap peers \cap sessOpen)]
        /\ peers' = peers \ gone
        /\ nodes' = nodes \ gone
        /\ blacklist' = blacklist \cup {Host(addr)}
        /\ call' = [call EXCEPT ![c].addrs = Tail(@)]
        /\ gret' = NoGret
        /\ UNCHANGED <<rl, persist, saved, gmu, threads, shutVars>>

\* SetBlacklist: g.blacklist = make(map[string]struct{})
resetBlacklist(c) ==
    /\ call[c].op = "SetBlacklist"
    /\ call[c].pc = "body"
    /\ blacklist' = {}
    /\ call' = [call EXCEPT ![c].pc = "add"]
    /\ gret' = NoGret
    /\ UNCHANGED <<peers, nodes, sessOpen, inbound, rl, persist, saved, gmu, threads, peerTG, shutVars>>

\* a RemoveFromBlacklist that clears the blacklist
unlistedAll(addr) == Hosts

\* the key RemoveFromBlacklist deletes: addr.Host()
unlisted(addr) == {Host(addr)}

\* one turn of the loop of RemoveFromBlacklist
removeFromBlacklist(c) ==
    /\ call[c].op = "RemoveFromBlacklist"
    /\ call[c].pc = "body"
    /\ call[c].addrs # <<>>
    /\ blacklist' = blacklist \ unlisted(Head(call[c].addrs))
    /\ call' = [call EXCEPT ![c].addrs = Tail(@)]
    /\ gret' = NoGret
    /\ UNCHANGED <<peers, nodes, sessOpen, inbound, rl, persist, saved, gmu, threads, peerTG, shutVars>>

\* Blacklist() and RateLimits() read what they return
readBlacklist(c) ==
    /\ call[c].op = "Blacklist"
    /\ call[c].pc = "body"
    /\ call' = [call EXCEPT ![c].val = blacklist, ![c].pc = "ret"]
    /\ gret' = NoGret
    /\ UNCHANGED <<dataVars, gmu, threads, peerTG, shutVars>>

readRateLimits(c) ==
    /\ call[c].op = "RateLimits"
    /\ call[c].pc = "body"
    /\ call' = [call EXCEPT ![c].down = persist.MaxDownloadSpeed,
                            ![c].up = persist.MaxUploadSpeed, ![c].pc = "ret"]
    /\ gret' = NoGret
    /\ UNCHANGED <<dataVars, gmu, threads, peerTG, shutVars>>

\* the third argument of rl.SetLimits
packetSize(down, up) == IF down = 0 /\ up = 0 THEN 0 ELSE 4 * 4096

\* a validation that lets a negative upload speed through
negativeDownOnly(down, up) == down < 0

\* setRateLimits: "download/upload rate can't be below 0"
negative(down, up) == down < 0 \/ up < 0

\* SetRateLimits up to its saveSync
setRateLimits(c) ==
    LET down == call[c].down
        up == call[c].up
    IN  /\ call[c].op = "SetRateLimits"
        /\ call[c].pc = "body"
        /\ IF negative(down, up)
           THEN /\ call' = [call EXCEPT ![c].err = "negative", ![c].pc = "ret"]
                /\ UNCHANGED <<rl, persist>>
           ELSE /\ rl' = [down |-> down, up |-> up, packetSize |-> packetSize(down, up)]
                /\ persist' = [MaxDownloadSpeed |-> down, MaxUploadSpeed |-> up]
                /\ call' = [call EXCEPT ![c].pc = "save"]
        /\ gret' = NoGret
        /\ UNCHANGED <<blacklist, peers, nodes, sessOpen, inbound, saved, gmu, threads, peerTG, shutVars>>

\* ForwardPort changes nothing the gateway keeps
forwardPort(c) ==
    /\ call[c].op = "ForwardPort"
    /\ call[c].pc = "body"
    /\ call' = [call EXCEPT ![c].pc = "ret"]
    /\ gret' = NoGret
    /\ UNCHANGED <<dataVars, gmu, threads, peerTG, shutVars>>

\* what is on disk after saveSync, and after saveSyncNodes: a save that fails
\* leaves what was there
saveSync(disk, ok) ==
    IF ok THEN [disk EXCEPT !.MaxDownloadSpeed = persist.MaxDownloadSpeed,
                            !.MaxUploadSpeed = persist.MaxUploadSpeed,
                            !.blacklist = blacklist]
    ELSE disk

saveSyncNodes(disk, ok) == IF ok THEN [disk EXCEPT !.nodes = nodes] ELSE disk

\* the loops of addToBlacklist and RemoveFromBlacklist are through
atSave(c) ==
    \/ call[c].pc = "save"
    \/ call[c].pc = "add" /\ call[c].addrs = <<>>
    \/ call[c].pc = "body" /\ call[c].op = "RemoveFromBlacklist" /\ call[c].addrs = <<>>

\* the deferred g.mu.Unlock() and threads.Done()
unlockAndDone(c) ==
    /\ gmu' = [w |-> IF gmu.w = c THEN NoHolder ELSE gmu.w, r |-> gmu.r \ {c}]
    /\ threads' = [threads EXCEPT !.count = IF call[c].admitted THEN @ - 1 ELSE @]
    /\ call' = [call EXCEPT ![c] = NoCall]

\* return g.saveSync(), whether the save fails or not
apiSaveReturn(c, ok) ==
    /\ atSave(c)
    /\ saved' = saveSync(saved, ok)
    /\ gret' = [NoGret EXCEPT !.c = c, !.op = call[c].op, !.args = call[c].args,
                              !.old = call[c].old, !.err = IF ok THEN "" ELSE "save",
                              !.down = call[c].down, !.up = call[c].up]
    /\ unlockAndDone(c)
    /\ UNCHANGED <<blacklist, peers, nodes, sessOpen, inbound, rl, persist, peerTG, shutVars>>

\* the returns that save nothing
apiReturn(c) ==
    /\ call[c].pc = "ret"
    /\ gret' = [NoGret EXCEPT !.c = c, !.op = call[c].op, !.args = call[c].args,
                              !.old = call[c].old, !.err = call[c].err,
                              !.val = call[c].val, !.down = call[c].down, !.up = call[c].up]
    /\ unlockAndDone(c)
    /\ UNCHANGED <<dataVars, peerTG, shutVars>>

\* ------------------------------------------------------------ the peers
\* a peer the gateway dialled is installed by the peer manager: its host is
\* not blacklisted, the peer set and its outbound part are below their
\* ceilings, and its session joins the peer thread group
connect(addr) ==
    /\ addr \notin peers
    /\ Host(addr) \notin blacklist
    /\ Cardinality(peers) < maxPeers
    /\ Cardinality(peers \ inbound) < maxOutboundPeers
    /\ ~peerTG.stopped
    /\ loops \cap {"listener", "peerManager"} # {}
    /\ gmu.w = NoHolder /\ gmu.r = {}
    /\ peers' = peers \cup {addr}
    /\ nodes' = nodes \cup {addr}
    /\ sessOpen' = sessOpen \cup {addr}
    /\ peerTG' = [peerTG EXCEPT !.count = @ + 1]
    /\ gret' = NoGret
    /\ UNCHANGED <<blacklist, inbound, rl, persist, saved, gmu, threads, call, shutVars>>

\* a kick policy that takes any peer
kickableAny(addr) == peers

\* the peers that may be kicked for a connection from addr: inbound ones that
\* are not of the local network, and of these the ones of addr's host when
\* there are any
kickable(addr) ==
    LET open == {p \in inbound : ~Local(p)}
        shared == {p \in open : Host(p) = Host(addr)}
    IN  IF shared # {} THEN shared ELSE open

\* the listener accepts a connection from addr: below the ceiling the peer is
\* installed as an inbound peer; at the ceiling one kickable peer is kicked
\* for it, and with no peer to kick the connection is turned away
acceptPeer(addr) ==
    /\ addr \notin peers
    /\ Host(addr) \notin blacklist
    /\ ~peerTG.stopped
    /\ "listener" \in loops /\ listenerOpen
    /\ gmu.w = NoHolder /\ gmu.r = {}
    /\ IF Cardinality(peers) < maxPeers
       THEN /\ peers' = peers \cup {addr}
            /\ sessOpen' = sessOpen \cup {addr}
            /\ inbound' = inbound \cup {addr}
            /\ nodes' = nodes \cup {addr}
            /\ peerTG' = [peerTG EXCEPT !.count = @ + 1]
       ELSE IF kickable(addr) = {}
       THEN UNCHANGED <<peers, sessOpen, inbound, nodes, peerTG>>
       ELSE \E kicked \in kickable(addr) :
                /\ peers' = (peers \ {kicked}) \cup {addr}
                /\ sessOpen' = (sessOpen \ {kicked}) \cup {addr}
                /\ inbound' = (inbound \ {kicked}) \cup {addr}
                /\ nodes' = nodes \cup {addr}
                /\ UNCHANGED peerTG
    /\ gret' = NoGret
    /\ UNCHANGED <<blacklist, rl, persist, saved, gmu, threads, call, shutVars>>

\* a peer session ends when the peer thread group is stopped
peerStop(addr) ==
    /\ peerTG.stopped
    /\ addr \in sessOpen
    /\ gmu.w = NoHolder /\ gmu.r = {}
    /\ sessOpen' = sessOpen \ {addr}
    /\ peers' = peers \ {addr}
    /\ inbound' = inbound \ {addr}
    /\ peerTG' = [peerTG EXCEPT !.count = @ - 1]
    /\ gret' = NoGret
    /\ UNCHANGED <<blacklist, nodes, rl, persist, saved, gmu, threads, call, shutVars>>

\* --------------------------------------------------------------- shutdown
\* Close: g.threads.Stop(), which fails when the group is stopped already and
\* else flips the stop signal
closeStop ==
    /\ IF threads.stopped
       THEN /\ gret' = [NoGret EXCEPT !.c = Closer, !.op = "Close", !.err = "stopped"]
            /\ UNCHANGED <<threads, closePc>>
       ELSE /\ closePc = "idle"
            /\ threads' = [threads EXCEPT !.stopped = TRUE]
            /\ closePc' = "onStop"
            /\ gret' = NoGret
    /\ UNCHANGED <<dataVars, gmu, peerTG, call, onStopLeft, afterStopLeft, loops,
                   listenerOpen, logOpen>>

\* an OnStop hook is called: what it does before it waits
onStopBegin(h) ==
    /\ closePc = "onStop"
    /\ onStopLeft.running = ""
    /\ h \in onStopLeft.left
    /\ onStopLeft' = [left |-> onStopLeft.left \ {h}, running |-> h]
    /\ peerTG' = IF h = "peerTG" THEN [peerTG EXCEPT !.stopped = TRUE] ELSE peerTG
    /\ listenerOpen' = IF h = "listener" THEN FALSE ELSE listenerOpen
    /\ gret' = NoGret
    /\ UNCHANGED <<dataVars, gmu, threads, call, closePc, afterStopLeft, loops, logOpen>>

\* hooks that wait for nothing
hookNeverWaits(h) == TRUE

\* what the running OnStop hook waits for: peerTG.Stop() for the peer
\* sessions to be done, the four that read a closed-channel for their loop
hookMayReturn(h) ==
    CASE h = "peerTG" -> peerTG.count = 0
      [] h = "rpcs" -> TRUE
      [] OTHER -> h \notin loops

\* the running OnStop hook returns
onStopEnd ==
    /\ closePc = "onStop"
    /\ onStopLeft.running # ""
    /\ hookMayReturn(onStopLeft.running)
    /\ onStopLeft' = [onStopLeft EXCEPT !.running = ""]
    /\ gret' = NoGret
    /\ UNCHANGED <<dataVars, gmu, threads, peerTG, call, closePc, afterStopLeft, loops,
                   listenerOpen, logOpen>>

\* a Stop that does not wait for its threads
quiescedAlways == TRUE

\* every thread that Add admitted has called Done
quiesced == threads.count = 0

\* Stop waits until every admitted thread has called Done
stopWait ==
    /\ closePc = "onStop"
    /\ onStopLeft = [left |-> {}, running |-> ""]
    /\ quiesced
    /\ closePc' = "afterStop"
    /\ gret' = NoGret
    /\ UNCHANGED <<dataVars, gmu, threads, peerTG, call, onStopLeft, afterStopLeft, loops,
                   listenerOpen, logOpen>>

\* the AfterStop hooks, the one registered last first: the save of the
\* settings and of the nodes under g.mu, then the close of the logger
afterStop(ok) ==
    LET h == Last(afterStopLeft)
    IN  /\ closePc = "afterStop"
        /\ afterStopLeft # <<>>
        /\ afterStopLeft' = Front(afterStopLeft)
        /\ IF h = "save"
           THEN /\ gmu.w = NoHolder /\ gmu.r = {}
                /\ saved' = saveSyncNodes(saveSync(saved, ok), ok)
                /\ UNCHANGED logOpen
           ELSE /\ logOpen' = FALSE
                /\ UNCHANGED saved
        /\ gret' = NoGret
        /\ UNCHANGED <<blacklist, peers, nodes, sessOpen, inbound, rl, persist, gmu, threads, peerTG,
                       call, closePc, onStopLeft, loops, listenerOpen>>

\* Stop returns to Close
stopReturn ==
    /\ closePc = "afterStop"
    /\ afterStopLeft = <<>>
    /\ closePc' = "stopped"
    /\ gret' = NoGret
    /\ UNCHANGED <<dataVars, gmu, threads, peerTG, call, onStopLeft, afterStopLeft, loops,
                   listenerOpen, logOpen>>

\* the rest of Close: under g.mu, saveSync and saveSyncNodes
closeSave(ok) ==
    /\ closePc = "stopped"
    /\ gmu.w = NoHolder /\ gmu.r = {}
    /\ saved' = saveSyncNodes(saveSync(saved, ok), ok)
    /\ closePc' = "done"
    /\ gret' = [NoGret EXCEPT !.c = Closer, !.op = "Close", !.err = IF ok THEN "" ELSE "save"]
    /\ UNCHANGED <<blacklist, peers, nodes, sessOpen, inbound, rl, persist, gmu, threads, peerTG,
                   call, onStopLeft, afterStopLeft, loops, listenerOpen, logOpen>>

\* loops that go on until Stop has returned
stopSeenLate(l) == closePc \in {"stopped", "done"}

\* what makes a permanent loop return: the stop signal, and for the
\* listener loop its closed listener
stopSeen(l) == threads.stopped \/ (l = "listener" /\ ~listenerOpen)

\* a permanent loop returns and closes its channel
loopExit(l) ==
    /\ l \in loops
    /\ stopSeen(l)
    /\ loops' = loops \ {l}
    /\ gret' = NoGret
    /\ UNCHANGED <<dataVars, gmu, threads, peerTG, call, closePc, onStopLeft, afterStopLeft,
                   listenerOpen, logOpen>>

\* the steps of Close and of the loops it waits for
Shutdown ==
    \/ closeStop
    \/ \E h \in Range(OnStopHooks) : onStopBegin(h)
    \/ onStopEnd
    \/ stopWait
    \/ \E ok \in BOOLEAN : afterStop(ok)
    \/ stopReturn
    \/ \E ok \in BOOLEAN : closeSave(ok)
    \/ \E l \in Loops : loopExit(l)

\* ---------------------------------------------------- gateway specifications
\* the address lists the callers pass
RECURSIVE ListsUpTo(_)
ListsUpTo(n) ==
    IF n = 0 THEN {<<>>}
    ELSE LET shorter == ListsUpTo(n - 1)
         IN  shorter \cup {Append(q, a) : q \in shorter, a \in Addrs}

AddrLists == ListsUpTo(MaxAddrs)

\* Two callers of the blacklist API, one that changes the blacklist and one
\* that reads it (g.mu lets one writer in at a time), and peers that
\* connect, up to three of them from two hosts.
NextBlacklist ==
    \/ \E addrs \in AddrLists :
           \E op \in {"AddToBlacklist", "RemoveFromBlacklist", "SetBlacklist"} :
               apiCall(1, op, addrs, 0, 0) /\ UNCHANGED sbAll
    \/ apiCall(2, "Blacklist", <<>>, 0, 0) /\ UNCHANGED sbAll
    \/ \E c \in Callers : apiLock(c) /\ UNCHANGED sbAll
    \/ \E c \in Callers : addToBlacklist(c) /\ UNCHANGED sbAll
    \/ \E c \in Callers : resetBlacklist(c) /\ UNCHANGED sbAll
    \/ \E c \in Callers : removeFromBlacklist(c) /\ UNCHANGED sbAll
    \/ \E c \in Callers : readBlacklist(c) /\ UNCHANGED sbAll
    \/ \E c \in Callers, ok \in BOOLEAN : apiSaveReturn(c, ok) /\ UNCHANGED sbAll
    \/ \E c \in Callers : apiReturn(c) /\ UNCHANGED sbAll
    \/ \E a \in Addrs : connect(a) /\ UNCHANGED sbAll

SpecBlacklist == Init /\ [][NextBlacklist]_vars

SpecHeap == Init /\ [][NextHeap]_vars

\* the speeds the callers pass: a negative one, the sentinel 0, positive ones
Speeds == -1..MaxSpeed

\* Two callers of the rate limit API: one sets the limits, the other sets
\* them or reads them.
NextRateLimits ==
    \/ \E c \in Callers, down \in Speeds, up \in Speeds :
           apiCall(c, "SetRateLimits", <<>>, down, up) /\ UNCHANGED sbAll
    \/ apiCall(2, "RateLimits", <<>>, 0, 0) /\ UNCHANGED sbAll
    \/ \E c \in Callers : apiLock(c) /\ UNCHANGED sbAll
    \/ \E c \in Callers : setRateLimits(c) /\ UNCHANGED sbAll
    \/ \E c \in Callers : readRateLimits(c) /\ UNCHANGED sbAll
    \/ \E c \in Callers, ok \in BOOLEAN : apiSaveReturn(c, ok) /\ UNCHANGED sbAll
    \/ \E c \in Callers : apiReturn(c) /\ UNCHANGED sbAll

SpecRateLimits == Init /\ [][NextRateLimits]_vars

\* The listener and the peer manager: connections that come in, from public
\* hosts and from a host of the local network, and peers the gateway dials.
NextAccept ==
    \/ \E a \in AcceptAddrs : connect(a) /\ UNCHANGED sbAll
    \/ \E a \in AcceptAddrs : acceptPeer(a) /\ UNCHANGED sbAll

SpecAccept == Init /\ [][NextAccept]_vars

\* Close, its OnStop hooks called in any order, with peers that connect and
\* whose sessions end.
NextShutdown ==
    \/ Shutdown /\ UNCHANGED sbAll
    \/ \E a \in Addrs : connect(a) /\ UNCHANGED sbAll
    \/ \E a \in Addrs : peerStop(a) /\ UNCHANGED sbAll

SpecShutdown == Init /\ [][NextShutdown]_vars

\* the steps of the goroutine that is in Close, after it has flipped the
\* stop signal
closeGoesOn ==
    \/ \E h \in Range(OnStopHooks) : onStopBegin(h)
    \/ onStopEnd
    \/ stopWait
    \/ \E ok \in BOOLEAN : afterStop(ok)
    \/ stopReturn
    \/ \E ok \in BOOLEAN : closeSave(ok)

\* The goroutines run: the one in Close takes its next step when it can, and
\* a loop or a peer session that may return does. Nothing obliges anyone to
\* call Close or to connect.
SpecShutdownFair ==
    /\ SpecShutdown
    /\ WF_vars(closeGoesOn /\ UNCHANGED sbAll)
    /\ WF_vars((\E l \in Loops : loopExit(l)) /\ UNCHANGED sbAll)
    /\ WF_vars((\E a \in Addrs : peerStop(a)) /\ UNCHANGED sbAll)

\* the address lists the caller passes while the gateway closes: none, one
ShortLists == {<<>>, << <<1, 1>> >>}

\* the OnStop hook registered last of those that have not run
lastHook ==
    OnStopHooks[CHOOSE k \in 1..Len(OnStopHooks) :
                    /\ OnStopHooks[k] \in onStopLeft.left
                    /\ \A j \in (k + 1)..Len(OnStopHooks) : OnStopHooks[j] \notin onStopLeft.left]

\* Close, its OnStop hooks called in the reverse of the order of their
\* registration as its AfterStop hooks are, and one caller of the whole API,
\* before Close, while it runs and after it.
NextClose ==
    \/ closeStop /\ UNCHANGED sbAll
    \/ onStopLeft.left # {} /\ onStopBegin(lastHook) /\ UNCHANGED sbAll
    \/ onStopEnd /\ UNCHANGED sbAll
    \/ stopWait /\ UNCHANGED sbAll
    \/ \E ok \in BOOLEAN : afterStop(ok) /\ UNCHANGED sbAll
    \/ stopReturn /\ UNCHANGED sbAll
    \/ \E ok \in BOOLEAN : closeSave(ok) /\ UNCHANGED sbAll
    \/ \E l \in Loops : loopExit(l) /\ UNCHANGED sbAll
    \/ \E addrs \in ShortLists :
           \E op \in {"AddToBlacklist", "RemoveFromBlacklist", "SetBlacklist"} :
               apiCall(1, op, addrs, 0, 0) /\ UNCHANGED sbAll
    \/ \E op \in {"Blacklist", "ForwardPort"} :
           apiCall(1, op, <<>>, 0, 0) /\ UNCHANGED sbAll
    \/ \E down \in 0..MaxSpeed : apiCall(1, "SetRateLimits", <<>>, down, 0) /\ UNCHANGED sbAll
    \/ apiLock(1) /\ UNCHANGED sbAll
    \/ addToBlacklist(1) /\ UNCHANGED sbAll
    \/ resetBlacklist(1) /\ UNCHANGED sbAll
    \/ removeFromBlacklist(1) /\ UNCHANGED sbAll
    \/ readBlacklist(1) /\ UNCHANGED sbAll
    \/ forwardPort(1) /\ UNCHANGED sbAll
    \/ setRateLimits(1) /\ UNCHANGED sbAll
    \/ \E ok \in BOOLEAN : apiSaveReturn(1, ok) /\ UNCHANGED sbAll
    \/ apiReturn(1) /\ UNCHANGED sbAll

SpecClose == Init /\ [][NextClose]_vars

\* ------------------------------------------------------------ the stop signal
\* the thread group the streams run under is stopped
renterStop ==
    /\ ~renterStopped
    /\ renterStopped' = TRUE
    /\ ret' = NoRet
    /\ UNCHANGED <<bytesBufferedPerStream, bufVars, streamVars, panic, lockVars, uploadHeap, dataSource, delivered, gwVars>>

\* One stream whose owner's steps are taken lock by lock, fetches that
\* return or do not, and the stop signal.
NextStop ==
    \/ ThreadStep(1)
    \/ \E b \in Buffers : \E i \in DOMAIN dataSections[b] :
           fetchReturn(b, i, TRUE) /\ UNCHANGED <<lockVars, outerVars>>
    \/ renterStop

SpecStop == Init /\ [][NextStop]_vars

\* -------------------------------------------------------- the data source
\* the sections whose goroutine has not come back from ReadAt
inReadAt(m) == {i \in DOMAIN m : m[i].fetchPc = "ReadAt"}

\* What a step of the stream buffer calls on the data sources. newDataSection
\* starts a goroutine that calls ReadAt; the goroutine keeps its section and
\* its buffer, so its call goes on when the section has left the buffer;
\* managedRemoveStream calls SilentClose when the last stream has gone; and
\* callNewStream keeps the source it was given when it makes a new buffer.
sourceCalls ==
    dataSource' =
        [b \in Buffers |->
            LET started == DOMAIN dataSections'[b] \ DOMAIN dataSections[b]
                returned == inReadAt(dataSections[b]) \cap
                                (DOMAIN dataSections'[b] \ inReadAt(dataSections'[b]))
            IN  [readAts |-> dataSource[b].readAts + Cardinality(started)
                                 - Cardinality(returned),
                 closed |-> IF ret'.op = "Close" /\ ret'.buf = b /\ ret'.srcCloses > 0
                            THEN TRUE
                            ELSE IF ret'.op = "callNewStream" /\ ret'.buf = b
                                    /\ ret'.argCloses = 0
                            THEN FALSE
                            ELSE dataSource[b].closed]]

\* the ReadAt of a section that has left the buffer returns
orphanReadAt(b) ==
    /\ panic = ""
    /\ dataSource[b].readAts > Cardinality(inReadAt(dataSections[b]))
    /\ dataSource' = [dataSource EXCEPT ![b].readAts = @ - 1]
    /\ ret' = NoRet
    /\ UNCHANGED <<bytesBufferedPerStream, bufVars, streamVars, panic>>

\* everything outside the stream buffer and its data sources
notSource == <<lockVars, renterStopped, uploadHeap, delivered, gwVars>>

\* Two streams on source 2 and the calls on the data sources of their
\* buffers. A buffer whose goroutines still run is not garbage: no new
\* buffer takes its place. At most MaxReadAts calls are in flight on a source.
NextSource ==
    \/ \E s \in Streams, r \in RequestSizes :
           /\ lookup(2) = NoBuf => dataSource[FreshBuffer(2)].readAts = 0
           /\ callNewStream(s, 2, r, 0) /\ sourceCalls /\ UNCHANGED notSource
    \/ \E s \in Streams :
           /\ pc[s] = "prepare"
           /\ dataSource[staticStreamBuffer[s]].readAts < MaxReadAts
           /\ callUpdate(s) /\ sourceCalls /\ UNCHANGED notSource
    \/ \E s \in Streams : \E o \in SeekOffsets(s, 0, 0) :
           Seek(s, o, SeekStart) /\ sourceCalls /\ UNCHANGED notSource
    \/ \E s \in Streams, len \in 1..MaxReadLen :
           Read(s, len) /\ sourceCalls /\ UNCHANGED notSource
    \/ \E s \in Streams : callEvictAll(s) /\ sourceCalls /\ UNCHANGED notSource
    \/ \E s \in Streams : managedRemoveStream(s) /\ sourceCalls /\ UNCHANGED notSource
    \/ \E b \in Buffers : \E i \in DOMAIN dataSections[b] :
           fetchReturn(b, i, TRUE) /\ sourceCalls /\ UNCHANGED notSource
    \/ \E b \in Buffers : orphanReadAt(b) /\ UNCHANGED notSource

SpecSource == Init /\ [][NextSource]_vars

\* ------------------------------------------------------ the sequential reader
\* everything outside the stream buffer and what its reader has got
notReader == <<lockVars, renterStopped, uploadHeap, dataSource, gwVars>>

\* the reader opens a stream at an offset of its choice
readerOpen ==
    \E id \in SourceIDs, r \in RequestSizes : \E o \in 0..DataSize(id) :
        /\ callNewStream(1, id, r, o)
        /\ delivered' = [from |-> o, data |-> <<>>]
        /\ UNCHANGED notReader

\* the reader calls Read with a buffer that is not empty and keeps the bytes
readerRead ==
    \E len \in 1..MaxReadLen :
        /\ Read(1, len)
        /\ delivered' = [delivered EXCEPT !.data = @ \o ret'.data]
        /\ UNCHANGED notReader

\* the steps of prepareOffset inside callNewStream and inside Read
readerPrepare ==
    /\ callUpdate(1) \/ callEvict(1)
    /\ UNCHANGED <<delivered, notReader>>

\* a ReadAt of the data source returns without error
sourceReturns ==
    /\ \E b \in Buffers : \E i \in DOMAIN dataSections[b] : fetchReturn(b, i, TRUE)
    /\ UNCHANGED <<delivered, notReader>>

\* One stream opened anywhere in its data and read to its end: the reader
\* goes on calling Read, a call goes on until it returns, and every ReadAt of
\* the source returns.
NextSequential == readerOpen \/ readerPrepare \/ readerRead \/ sourceReturns

SpecSequential ==
    /\ InitOne
    /\ [][NextSequential]_vars
    /\ WF_vars(readerPrepare)
    /\ WF_vars(readerRead)
    /\ WF_vars(sourceReturns)

\* ============================================================ properties
Open(s) == pc[s] # "none"

\* the open streams that point to buffer b
StreamsOn(b) == {s \in Streams : Open(s) /\ staticStreamBuffer[s] = b}

\* the open streams on b whose LRU holds index i
Holders(b, i) == {s \in StreamsOn(b) : InSeq(lru[s], i)}

\* ------------------------------------------------------------------- C1
\* C1: for every stream buffer and every index i present in its dataSections,
\* refCount(i) is the number of open streams on that buffer whose LRU holds i.
\* Every state of the model lies between two critical sections, so no LRU
\* update or eviction is halfway through in any of them.
RefCountCountsHolders ==
    \A b \in Buffers : \A i \in DOMAIN dataSections[b] :
        dataSections[b][i].refCount = Cardinality(Holders(b, i))

\* two streams share a buffer, one section is held by both and another by one
\* of them only, after an eviction made room in an LRU
RefCountCountsHoldersWitness ==
    \E b \in Buffers : \E i, j \in DOMAIN dataSections[b] :
        /\ \A s \in Streams : pc[s] = "ready" /\ staticStreamBuffer[s] = b
        /\ dataSections[b][i].refCount = 2
        /\ dataSections[b][j].refCount = 1
        /\ \E s \in Streams : Len(lru[s]) = lruSize[s] /\ offset[s] > 0

\* ------------------------------------------------------------------- C2
\* C2: every index in the LRU of an open stream is present in the dataSections
\* of the stream's buffer with refCount >= 1, and callRemoveDataSection is
\* never called for an index that is absent (its assertion never fires).
LRUIndicesArePresent ==
    /\ \A s \in Streams : Open(s) =>
           \A k \in 1..Len(lru[s]) :
               /\ lru[s][k] \in DOMAIN dataSections[staticStreamBuffer[s]]
               /\ dataSections[staticStreamBuffer[s]][lru[s][k]].refCount >= 1
    /\ panic # "remove called on data section that does not exist"

\* a stream has closed and released its sections, the other stream on the same
\* buffer still holds its own
LRUIndicesArePresentWitness ==
    /\ ret.op = "Close"
    /\ \E s \in Streams : /\ Open(s)
                          /\ staticStreamBuffer[s] = ret.buf
                          /\ Len(lru[s]) = 2

\* ------------------------------------------------------------------- C3
\* C3: the data source of a stream buffer is closed (SilentClose) exactly once,
\* by the Close of the last open stream on the buffer, and never while a stream
\* on it is still open, whatever the interleaving of callNewStream and Close.
SourceClosedByLastClose ==
    [][ /\ \A s \in Streams : (Open(s) /\ pc'[s] = "none") =>
               ret'.srcCloses = IF StreamsOn(staticStreamBuffer[s]) = {s} THEN 1 ELSE 0
        /\ ret'.srcCloses > 0 =>
               /\ \E s \in Streams : /\ Open(s) /\ pc'[s] = "none"
                                     /\ staticStreamBuffer[s] = ret'.buf
               /\ \A t \in Streams : pc'[t] # "none" => staticStreamBuffer'[t] # ret'.buf
      ]_vars

\* the last stream on a buffer has closed and closed the source, while the
\* other stream is open on another buffer
SourceClosedByLastCloseWitness ==
    /\ ret.op = "Close"
    /\ ret.srcCloses = 1
    /\ \E t \in Streams : Open(t) /\ lru[t] # <<>>

\* ------------------------------------------------------------------- C4
\* C4: a stream buffer is in the streamBufferSet exactly while at least one
\* stream for its source id is open, and its externRefCount is the number of
\* open streams that point to it: never 0 while it is in the set.
BufferInSetWhileStreamsOpen ==
    /\ \A id \in SourceIDs :
           streams[id] # NoBuf <=>
               \E s \in Streams : Open(s) /\ staticStreamID[staticStreamBuffer[s]] = id
    /\ \A id \in SourceIDs : streams[id] # NoBuf =>
           /\ staticStreamID[streams[id]] = id
           /\ externRefCount[streams[id]] = Cardinality(StreamsOn(streams[id]))
           /\ externRefCount[streams[id]] >= 1
    /\ \A s \in Streams : Open(s) =>
           streams[staticStreamID[staticStreamBuffer[s]]] = staticStreamBuffer[s]

\* one of two streams on a buffer has closed: the buffer stays in the set with
\* externRefCount 1
BufferInSetWhileStreamsOpenWitness ==
    /\ ret.op = "Close"
    /\ ret.srcCloses = 0
    /\ \E id \in SourceIDs : streams[id] = ret.buf /\ externRefCount[ret.buf] = 1

\* ------------------------------------------------------------------- C5
\* C5: callNewStream for an id that has a buffer in the set closes the data
\* source passed in exactly once and never reads from it, hands out the
\* existing buffer with its data size, section size and sections as they were,
\* and adds one to externRefCount; for an id that has none it installs a new
\* buffer with externRefCount 1 and does not close the data source passed in.
NewStreamReusesOrInstalls ==
    [][ \A s \in Streams : (pc[s] = "none" /\ pc'[s] # "none") =>
            LET b == staticStreamBuffer'[s]
                id == staticStreamID'[b]
            IN  IF streams[id] # NoBuf
                THEN /\ b = streams[id]
                     /\ ret'.argCloses = 1
                     /\ ret'.srcCloses = 0
                     /\ externRefCount'[b] = externRefCount[b] + 1
                     /\ staticDataSize'[b] = staticDataSize[b]
                     /\ staticDataSectionSize'[b] = staticDataSectionSize[b]
                     /\ staticStreamID'[b] = staticStreamID[b]
                     /\ dataSections' = dataSections
                     /\ readAtCalls' = readAtCalls
                     /\ streams' = streams
                ELSE /\ streams' = [streams EXCEPT ![id] = b]
                     /\ externRefCount'[b] = 1
                     /\ ret'.argCloses = 0
                     /\ ret'.srcCloses = 0
                     /\ staticDataSize'[b] = DataSize(id)
                     /\ dataSections'[b] = EmptyMap
      ]_vars

\* a second stream has joined a buffer that already holds sections
NewStreamReusesOrInstallsWitness ==
    /\ ret.op = "callNewStream"
    /\ ret.argCloses = 1
    /\ externRefCount[ret.buf] = 2
    /\ dataSections[ret.buf] # EmptyMap

\* ------------------------------------------------------------------- C6
\* C6: while a section index stays present in a buffer exactly one ReadAt is
\* issued for it, however many streams fetch it, and every Read of that
\* section returns bytes of the one section the buffer holds, so two streams
\* that read section 0 of the same source get the same bytes.
OneReadAtPerSection ==
    /\ \A b \in Buffers : \A i \in DOMAIN dataSections[b] :
           i \in DOMAIN readAtCalls[b] /\ readAtCalls[b][i] = 1
    /\ (ret.op = "Read" /\ ret.err = "") =>
           LET b == ret.buf
               o == ret.pos - ret.n
               i == o \div staticDataSectionSize[b]
               lo == o % staticDataSectionSize[b]
           IN  /\ i \in DOMAIN dataSections[b]
               /\ ret.data = SubSeq(dataSections[b][i].externData, lo + 1, lo + ret.n)

\* both streams hold section 0 of one buffer, stream 1 has read from it and
\* stream 2 has just read from it, and one ReadAt was issued
OneReadAtPerSectionWitness ==
    \E b \in Buffers :
        /\ staticStreamBuffer = [s \in Streams |-> b]
        /\ 0 \in DOMAIN dataSections[b]
        /\ dataSections[b][0].refCount = 2
        /\ readAtCalls[b][0] = 1
        /\ offset[1] > 0
        /\ ret.op = "Read" /\ ret.s = 2 /\ ret.err = "" /\ ret.pos - ret.n = 0

\* ------------------------------------------------------------------- C7
\* C7: after any callNewStream, Seek or Read the offset of a stream is within
\* the data: 0 <= offset <= dataSize.
OffsetWithinData ==
    \A s \in Streams : pc[s] = "ready" =>
        /\ 0 <= offset[s]
        /\ offset[s] <= staticDataSize[staticStreamBuffer[s]]

\* a stream is at rest beyond the end of the data, with the section it
\* prepared there fetched
OffsetBeyondDataWitness ==
    \E s \in Streams :
        /\ pc[s] = "ready"
        /\ offset[s] > staticDataSize[staticStreamBuffer[s]]
        /\ \A i \in DOMAIN dataSections[staticStreamBuffer[s]] :
               dataSections[staticStreamBuffer[s]][i].dataAvailable

\* ------------------------------------------------------------------- C8
\* C8: with a data source that returns its true content, a Read into a buffer
\* of L >= 1 bytes at an offset o < dataSize returns n >= 1 bytes, n <= L,
\* which are the bytes [o, o+n) of the source, and moves the offset to o+n,
\* whatever this or another stream cached or evicted before; nothing panics.
ReadReturnsSourceBytes ==
    /\ panic = ""
    /\ ret.op = "Read" =>
           LET b == ret.buf
               o == ret.pos - ret.n
           IN  IF o < staticDataSize[b]
               THEN /\ ret.err = ""
                    /\ ret.n >= 1 /\ ret.n <= ret.len
                    /\ ret.data = ReadAt(staticStreamID[b], o, ret.n)
                    /\ offset[ret.s] = o + ret.n
               ELSE ret.err = "EOF" /\ ret.n = 0

\* a Read of 2 bytes from the middle of a section that another stream holds
\* too: it returns the one byte left in the section
ReadReturnsSourceBytesWitness ==
    /\ ret.op = "Read" /\ ret.err = "" /\ ret.len = 2 /\ ret.n = 1
    /\ ret.pos = 2
    /\ staticDataSectionSize[ret.buf] = 2
    /\ \E t \in Streams \ {ret.s} : staticStreamBuffer[t] = ret.buf /\ lru[t] # <<>>

\* ------------------------------------------------------------------- C9
\* C9: Seek(k, SeekEnd) with 0 <= k <= dataSize succeeds, sets the offset to
\* dataSize - k and returns that offset.
SeekEndCountsFromEnd ==
    (/\ ret.op = "Seek" /\ ret.whence = SeekEnd
     /\ 0 <= ret.arg /\ ret.arg <= staticDataSize[ret.buf]) =>
        /\ ret.err = ""
        /\ ret.pos = staticDataSize[ret.buf] - ret.arg
        /\ offset[ret.s] = staticDataSize[ret.buf] - ret.arg

\* Seek(1, SeekEnd) on 3 bytes of data has moved the stream to offset 2
SeekEndCountsFromEndWitness ==
    /\ ret.op = "Seek" /\ ret.whence = SeekEnd /\ ret.err = ""
    /\ ret.arg = 1 /\ ret.pos = 2
    /\ offset[ret.s] = 2

\* ------------------------------------------------------------------ C10
\* C10: Seek returns an error for a negative offset (whatever the whence), for
\* SeekEnd with an offset greater than dataSize, for SeekCurrent when offset
\* plus argument exceeds dataSize, and for an unknown whence; a Seek that
\* returns an error leaves the stream's offset and LRU and the buffer's
\* sections and refcounts as they were and returns the unchanged offset.
RejectedSeekChangesNothing ==
    [][ ret'.op = "Seek" =>
            LET s == ret'.s
                dataSize == staticDataSize[staticStreamBuffer[s]]
                bad == \/ ret'.arg < 0
                       \/ ret'.whence = SeekEnd /\ ret'.arg > dataSize
                       \/ ret'.whence = SeekCurrent /\ offset[s] + ret'.arg > dataSize
                       \/ ret'.whence \notin {SeekStart, SeekCurrent, SeekEnd}
            IN  /\ bad => ret'.err # ""
                /\ ret'.err # "" =>
                       /\ ret'.pos = offset[s]
                       /\ UNCHANGED <<bufVars, streamVars, panic>>
      ]_vars

\* Seek(off, SeekCurrent) beyond the end has been refused on a stream that
\* holds sections and has moved from the start
RejectedSeekChangesNothingWitness ==
    /\ ret.op = "Seek" /\ ret.err # "" /\ ret.whence = SeekCurrent
    /\ ret.arg > 0
    /\ ret.pos > 0
    /\ lru[ret.s] # <<>>

\* ------------------------------------------------------------------ C11
\* C11: a Read on a stream whose offset equals dataSize returns 0 bytes and
\* io.EOF; it does not wait for any section (it can be taken whatever the
\* sections' state, and it does not panic) and leaves the offset, the stream's
\* LRU and the buffer's sections and refcounts as they were.
ReadAtEndReturnsEOF ==
    [][ \A s \in Streams :
            (pc[s] = "ready" /\ offset[s] = staticDataSize[staticStreamBuffer[s]]) =>
                /\ ENABLED Read(s, 1)
                /\ panic' = ""
                /\ (ret'.op = "Read" /\ ret'.s = s) =>
                       /\ ret'.err = "EOF"
                       /\ ret'.n = 0
                       /\ ret'.data = <<>>
                       /\ UNCHANGED <<bufVars, streamVars>>
      ]_vars

\* a Read has returned io.EOF while a section of the stream's LRU was still
\* being fetched
ReadAtEndReturnsEOFWitness ==
    /\ ret.op = "Read" /\ ret.err = "EOF"
    /\ lru[ret.s] # <<>>
    /\ \E i \in DOMAIN dataSections[ret.buf] : ~dataSections[ret.buf][i].dataAvailable

\* ------------------------------------------------------------------ C12
RECURSIVE SumRefCounts(_, _)
\* the sum of the refCounts of the sections D of the map m
SumRefCounts(m, D) ==
    IF D = {} THEN 0
    ELSE LET i == CHOOSE j \in D : TRUE
         IN  m[i].refCount + SumRefCounts(m, D \ {i})

\* C12: with 256 bytes buffered per stream and sections of 64 bytes (an LRU of
\* 4) a stream that has sought in turn to 0, 64, 128, 192, 256 and 320 leaves
\* sections 0 and 1 absent from the stream buffer and sections 4 and 5
\* present, and the refCounts of the buffer's sections sum to the size of the
\* stream's LRU.
EvictionReleasesSections ==
    (pc[1] = "ready" /\ offset[1] = 5 * ScenarioSectionSize) =>
        LET m == dataSections[staticStreamBuffer[1]]
        IN  /\ lruSize[1] = 4
            /\ 0 \notin DOMAIN m /\ 1 \notin DOMAIN m
            /\ 4 \in DOMAIN m /\ 5 \in DOMAIN m
            /\ SumRefCounts(m, DOMAIN m) = Len(lru[1])

\* the seek to 320 has returned, with an LRU that is full
EvictionReleasesSectionsWitness ==
    /\ pc[1] = "ready" /\ offset[1] = 5 * ScenarioSectionSize
    /\ Len(lru[1]) = 4
    /\ Cardinality(DOMAIN dataSections[staticStreamBuffer[1]]) = 4

\* ------------------------------------------------------------------ C13
\* C13: whenever the stream buffer lock is free (every state of the model) no
\* section with refCount 0 is present in dataSections: a section leaves the
\* map in the step that takes its last reference, a refCount that goes down
\* goes down by one and stays above 0, and a section that enters the map has
\* refCount 1.
NoSectionWithoutReference ==
    /\ [](\A b \in Buffers : \A i \in DOMAIN dataSections[b] :
              dataSections[b][i].refCount >= 1)
    /\ [][ \A b \in Buffers :
               \A i \in DOMAIN dataSections[b] \cup DOMAIN dataSections'[b] :
                   IF i \notin DOMAIN dataSections[b]
                   THEN dataSections'[b][i].refCount = 1
                   ELSE IF i \notin DOMAIN dataSections'[b]
                   THEN dataSections[b][i].refCount = 1
                   ELSE dataSections'[b][i].refCount < dataSections[b][i].refCount =>
                        /\ dataSections'[b][i].refCount = dataSections[b][i].refCount - 1
                        /\ dataSections'[b][i].refCount >= 1
          ]_vars

\* a stream's LRU is full and has let go of section 0, which has left the
\* buffer, while the other stream of the buffer holds other sections
NoSectionWithoutReferenceWitness ==
    \E s \in Streams :
        LET m == dataSections[staticStreamBuffer[s]]
        IN  /\ \A t \in Streams : pc[t] = "ready" /\ staticStreamBuffer[t] = staticStreamBuffer[s]
            /\ Len(lru[s]) = lruSize[s]
            /\ offset[s] >= 2
            /\ 0 \notin DOMAIN m
            /\ \E i \in DOMAIN m : m[i].refCount = 2

Capacity(s) ==
    LET q == bytesBufferedPerStream \div staticDataSectionSize[staticStreamBuffer[s]]
    IN  IF q > 2 THEN q ELSE 2

DocumentedSectionCounts ==
    \A s \in Streams : Open(s) =>
        /\ staticDataSectionSize[staticStreamBuffer[s]] = 10 => lruSize[s] = 10
        /\ staticDataSectionSize[staticStreamBuffer[s]] = 50 =>
               /\ lruSize[s] = 3
               /\ lruSize[s] * staticDataSectionSize[staticStreamBuffer[s]] = 150

\* a stream on a source with a RequestSize of 50kb has filled its LRU: with 2
\* sections, 100kb
TwoSectionsOfFifty ==
    /\ pc[1] = "ready"
    /\ bytesBufferedPerStream = 100
    /\ staticDataSectionSize[staticStreamBuffer[1]] = 50
    /\ lruSize[1] = 2
    /\ Len(lru[1]) = lruSize[1]
    /\ offset[1] >= 100

\* ------------------------------------------------------------------ C17
\* C17: the error of the data source on the fetch of section i is returned by
\* every Read whose offset lies in section i and by no other: a Read at an
\* offset in a section whose fetch succeeded returns the bytes of the source,
\* whatever the fate of the other sections, on the same stream and on the
\* other streams of the buffer.
FetchErrorStaysInItsSection ==
    /\ panic = ""
    /\ ret.op = "Read" =>
           LET b == ret.buf
               o == ret.pos - ret.n
               i == o \div staticDataSectionSize[b]
           IN  IF o = staticDataSize[b] THEN ret.err = "EOF"
               ELSE /\ i \in DOMAIN dataSections[b]
                    /\ IF dataSections[b][i].externErr
                       THEN ret.err = "fetch" /\ ret.n = 0 /\ offset[ret.s] = o
                       ELSE /\ ret.err = ""
                            /\ ret.n >= 1
                            /\ ret.data = ReadAt(staticStreamID[b], o, ret.n)
                            /\ offset[ret.s] = o + ret.n

\* a Read has returned the bytes of a section while the other stream of the
\* buffer stands in a section whose fetch failed
FetchErrorStaysInItsSectionWitness ==
    /\ ret.op = "Read" /\ ret.err = "" /\ ret.n >= 1
    /\ \E t \in Streams \ {ret.s} :
           LET b == ret.buf
               j == offset[t] \div staticDataSectionSize[b]
           IN  /\ pc[t] = "ready"
               /\ staticStreamBuffer[t] = b
               /\ j \in DOMAIN dataSections[b]
               /\ dataSections[b][j].externErr
               /\ InSeq(lru[ret.s], j)

\* ------------------------------------------------------------------ C18
\* C18: the completion protocol of a data section. dataAvailable is closed
\* once, by the fetch goroutine after its ReadAt has returned, and stays
\* closed; externData and externErr are written only while dataAvailable is
\* open and never after it is closed; and no Read obtains the bytes or the
\* error of a section before its dataAvailable is closed.
CompletionProtocol ==
    /\ [](\A b \in Buffers : \A i \in DOMAIN dataSections[b] :
              dataSections[b][i].dataAvailable <=> dataSections[b][i].fetchPc = "done")
    /\ [](ret.op = "Read" /\ ret.err # "EOF" =>
              LET i == (ret.pos - ret.n) \div staticDataSectionSize[ret.buf]
              IN  /\ i \in DOMAIN dataSections[ret.buf]
                  /\ dataSections[ret.buf][i].dataAvailable)
    /\ [][ \A b \in Buffers :
               \A i \in DOMAIN dataSections[b] \cap DOMAIN dataSections'[b] :
                   LET old == dataSections[b][i]
                       new == dataSections'[b][i]
                   IN  /\ old.dataAvailable =>
                              /\ new.dataAvailable
                              /\ new.externData = old.externData
                              /\ new.externErr = old.externErr
                       /\ (new.externData # old.externData \/ new.externErr # old.externErr) =>
                              ~old.dataAvailable /\ ~new.dataAvailable
                       /\ (~old.dataAvailable /\ new.dataAvailable) =>
                              old.fetchPc = "close"
          ]_vars

\* a Read has returned the bytes of a section whose neighbour's ReadAt has
\* failed and whose dataAvailable is not closed yet
CompletionProtocolWitness ==
    /\ ret.op = "Read" /\ ret.err = ""
    /\ \E j \in DOMAIN dataSections[ret.buf] :
           /\ dataSections[ret.buf][j].fetchPc = "close"
           /\ dataSections[ret.buf][j].externErr
           /\ ~dataSections[ret.buf][j].dataAvailable

\* ------------------------------------------------------------------ C19
HoldsLock(s) == sbsMu = s \/ \E b \in Buffers : sbMu[b] = s

\* C19: the lock order. No owner takes sbs.mu while it holds an sb.mu; no
\* owner is in managedData, waiting for dataAvailable, while it holds sbs.mu
\* or an sb.mu; and so there is no deadlock among these locks: whoever holds
\* one can take its next step, and whoever waits in managedData waits for a
\* section that is there and whose fetch has returned or can return.
LockOrder ==
    /\ [](\A s \in Streams : at[s] = "managedData" => ~HoldsLock(s))
    /\ [](\A s \in Streams : (panic = "" /\ HoldsLock(s)) => ENABLED ThreadStep(s))
    /\ [](\A s \in Streams : (panic = "" /\ at[s] = "managedData") =>
              LET b == staticStreamBuffer[s]
              IN  /\ currentSection(s) \in DOMAIN dataSections[b]
                  /\ \/ dataSections[b][currentSection(s)].dataAvailable
                     \/ ENABLED fetchReturn(b, currentSection(s), TRUE))
    /\ [][ \A s \in Streams :
               (sbsMu # s /\ sbsMu' = s) => \A b \in Buffers : sbMu[b] # s ]_vars

\* one owner waits in managedData for a section whose fetch has not returned
\* while the other owner holds the lock of the same buffer
LockOrderWitness ==
    \E s \in Streams, t \in Streams :
        /\ s # t
        /\ at[s] = "managedData"
        /\ ~dataSections[staticStreamBuffer[s]][currentSection(s)].dataAvailable
        /\ sbMu[staticStreamBuffer[s]] = t

\* ------------------------------------------------------------------ C20
\* C20: the stream lock. Whenever Read or Seek returns a result, error
\* returns of Seek included, the caller whose operation it is held s.mu when
\* the step that read or wrote the offset was taken.
OffsetOnlyUnderStreamLock ==
    [][ ret'.op \in {"Read", "Seek"} => mu[ret'.s] = caller' ]_vars

\* a Seek with a negative offset has returned the offset to the Other caller
\* while the Owner, inside a Seek of its own that has moved the offset, holds
\* s.mu and has not returned
UnlockedSeekDuringSeek ==
    /\ ret.op = "Seek" /\ ret.arg < 0 /\ caller = Other
    /\ mu[ret.s] = Owner
    /\ pc[ret.s] = "prepare"
    /\ ret.pos = offset[ret.s]
    /\ ret.pos > 0

\* ------------------------------------------------------------------ C21
\* C21: a Read that waits in managedData for dataAvailable waits for the stop
\* signal as well: once the thread group is stopped, the Read can return
\* whether or not the fetch of its section has returned.
StopReleasesBlockedRead ==
    \A s \in Streams :
        (panic = "" /\ renterStopped /\ at[s] = "managedData") =>
            \E len \in 1..MaxReadLen : ENABLED readData(s, len)

\* the thread group is stopped and a Read waits in managedData for a section
\* whose ReadAt has not returned
ReadBlockedAfterStop ==
    /\ renterStopped
    /\ at[1] = "managedData"
    /\ ~dataSections[staticStreamBuffer[1]][currentSection(1)].dataAvailable

\* ------------------------------------------------------------------ C22
\* C22: the blacklist invariant. Whenever no call holds g.mu for writing, no
\* connected peer has an address whose host is in the blacklist, whatever
\* AddToBlacklist, SetBlacklist and RemoveFromBlacklist calls came before.
NoPeerOnBlacklistedHost ==
    gmu.w = NoHolder => \A a \in peers : Host(a) \notin blacklist

\* AddToBlacklist has returned, and a peer whose session is open is connected
\* from another port of a host that is in the blacklist
PeerOnBlacklistedHost ==
    /\ gret.op = "AddToBlacklist" /\ gret.err = ""
    /\ \E a \in peers \cap sessOpen : Host(a) \in blacklist

\* ------------------------------------------------------------------ C23
Hosted(addrs) == {Host(addrs[k]) : k \in 1..Len(addrs)}

\* C23: when AddToBlacklist(addrs) returns, having run, every address of
\* addrs is out of peers, of the open sessions and of nodes, and its host is
\* in the blacklist; the blacklist is a set of hosts, the one from before the
\* call and the hosts of addrs, each once.
AddToBlacklistDisconnects ==
    (gret.op = "AddToBlacklist" /\ gret.err # "stopped") =>
        /\ \A k \in 1..Len(gret.args) :
               /\ gret.args[k] \notin peers
               /\ gret.args[k] \notin sessOpen
               /\ gret.args[k] \notin nodes
               /\ Host(gret.args[k]) \in blacklist
        /\ blacklist = gret.old \cup Hosted(gret.args)
        /\ blacklist \subseteq Hosts
        /\ peerTG.count = Cardinality(sessOpen)

\* AddToBlacklist has returned from two addresses of one host, both of them
\* connected before, and the blacklist has the host once
AddToBlacklistDisconnectsWitness ==
    /\ gret.op = "AddToBlacklist" /\ gret.err = ""
    /\ Len(gret.args) = 2 /\ gret.args[1] # gret.args[2]
    /\ Host(gret.args[1]) = Host(gret.args[2])
    /\ gret.old = {}
    /\ Cardinality(blacklist) = 1
    /\ nodes = {} /\ peers = {} /\ sessOpen = {}
    /\ saved.blacklist = blacklist

\* ------------------------------------------------------------------ C24
\* C24: when SetBlacklist(addrs) returns, having run, the blacklist is exactly
\* the hosts of addrs (none for an empty list); and a Blacklist() call reads
\* the whole blacklist at a moment at which no SetBlacklist is between its
\* Lock and its return, so what it returns is the set from before a
\* SetBlacklist or the set from after it.
SetBlacklistAtomic ==
    /\ []((gret.op = "SetBlacklist" /\ gret.err # "stopped") =>
              blacklist = Hosted(gret.args))
    /\ [][\A c \in Callers :
              (call[c].op = "Blacklist" /\ call[c].pc = "body" /\ call'[c].pc = "ret") =>
                  /\ call'[c].val = blacklist
                  /\ \A d \in Callers : call[d].op = "SetBlacklist" => call[d].pc = "lock"]_vars

\* Blacklist() has read the old set under its read lock, while a SetBlacklist
\* that will replace it with another set waits for g.mu
SetBlacklistAtomicWitness ==
    /\ call[1].op = "SetBlacklist" /\ call[1].pc = "lock"
    /\ call[2].op = "Blacklist" /\ call[2].pc = "ret"
    /\ 2 \in gmu.r
    /\ call[2].val = blacklist
    /\ blacklist # {}
    /\ Hosted(call[1].args) \cap blacklist = {}

\* ------------------------------------------------------------------ C25
\* C25: when RemoveFromBlacklist(addrs) returns, having run, the blacklist is
\* the one from before without the hosts of addrs; and no step taken while
\* the call holds g.mu changes the peers, the open sessions, the nodes or the
\* rate limits, or adds to the blacklist.
RemoveFromBlacklistFrame ==
    /\ []((gret.op = "RemoveFromBlacklist" /\ gret.err # "stopped") =>
              blacklist = gret.old \ Hosted(gret.args))
    /\ [][\A c \in Callers :
              (call[c].op = "RemoveFromBlacklist" /\ gmu.w = c) =>
                  /\ UNCHANGED <<peers, nodes, sessOpen, peerTG, rl, persist>>
                  /\ blacklist' \subseteq blacklist]_vars

\* RemoveFromBlacklist has returned: of two blacklisted hosts one is left,
\* and a peer of the other host that was connected before the call still is
RemoveFromBlacklistFrameWitness ==
    /\ gret.op = "RemoveFromBlacklist" /\ gret.err = ""
    /\ Cardinality(gret.old) = 2
    /\ Cardinality(blacklist) = 1
    /\ saved.blacklist = blacklist
    /\ \E k \in 1..Len(gret.args) : gret.args[k] \in peers \cap sessOpen \cap nodes

\* ------------------------------------------------------------------ C26
\* the limiter after SetLimits(down, up, n), n none for (0, 0) and a burst
\* window of 4 * 4096 bytes for every other pair
Limited(down, up) ==
    [down |-> down, up |-> up, packetSize |-> IF down = 0 /\ up = 0 THEN 0 ELSE 16384]

Refused == {"AddToBlacklist", "RemoveFromBlacklist", "SetBlacklist", "Blacklist",
            "ForwardPort", "SetRateLimits"}

\* C27: once Stop has flipped the stop signal, no call of AddToBlacklist,
\* RemoveFromBlacklist, SetBlacklist, Blacklist, ForwardPort or SetRateLimits
\* that begins gets any further than its return of the shutdown error, and
\* that return changes nothing the gateway keeps or has saved; a call that
\* was under way before does not return the shutdown error.
ShutdownRefusesCalls ==
    [][\A c \in Callers :
           /\ (threads.stopped /\ call[c].pc = "idle") =>
                  /\ call'[c].op \notin Refused
                  /\ gret'.c = c => (gret'.err = "stopped" /\ UNCHANGED dataVars)
           /\ (call[c].pc # "idle" /\ gret'.c = c) => gret'.err # "stopped"]_vars

\* Close has returned, and after it a SetRateLimits(1, 0) that began when the
\* gateway was closed has returned nil, with the limiter set and the
\* settings saved again
SetRateLimitsAfterClose ==
    /\ closePc = "done"
    /\ gret.op = "SetRateLimits" /\ gret.err = ""
    /\ rl.down = 1
    /\ persist.MaxDownloadSpeed = 1
    /\ saved.MaxDownloadSpeed = 1
    /\ threads.stopped /\ threads.count = 0

\* ------------------------------------------------------------------ C28
\* C28: from the moment the primary thread group has run its OnStop hooks and
\* waited for its threads, that is while an AfterStop hook runs or has run
\* (the final save, the close of the logger) and once Stop has returned to
\* Close, the peer thread group is stopped and no peer session is left in it.
PeerGroupQuiescesFirst ==
    (\/ closePc \in {"afterStop", "stopped", "done"}
     \/ afterStopLeft # AfterStopHooks
     \/ ~logOpen) =>
        /\ peerTG.stopped
        /\ peerTG.count = 0
        /\ sessOpen = {}

\* the final save has run and the logger is still open: the two peers that
\* were connected when Close was called are gone, the peer group is stopped
PeerGroupQuiescesFirstWitness ==
    /\ closePc = "afterStop"
    /\ afterStopLeft = <<"log">> /\ logOpen
    /\ Cardinality(nodes) = 2
    /\ saved.nodes = nodes
    /\ peers = {} /\ sessOpen = {}
    /\ peerTG = [stopped |-> TRUE, count |-> 0]

\* ------------------------------------------------------------------ C29
\* C29: once Close has called Stop, every OnStop hook that runs returns, Stop
\* returns and Close returns; and a hook that waits for the closed-channel
\* of a loop waits for a loop that is free to return then, whatever hooks
\* are still to be called.
CloseReturns ==
    /\ (closePc = "onStop") ~> (closePc = "done")
    /\ (onStopLeft.running # "") ~> (onStopLeft.running = "")
    /\ [](\A l \in Loops :
              (onStopLeft.running = l /\ l \in loops) => ENABLED loopExit(l))

\* Close has returned: every hook has run, every loop has returned, and peer
\* sessions there were have ended
CloseReturnsWitness ==
    /\ closePc = "done"
    /\ gret.op = "Close"
    /\ onStopLeft = [left |-> {}, running |-> ""]
    /\ afterStopLeft = <<>>
    /\ loops = {}
    /\ nodes # {} /\ sessOpen = {}

\* ------------------------------------------------------------------ C30
\* what saveSync and saveSyncNodes write when both succeed
InMemory ==
    [MaxDownloadSpeed |-> persist.MaxDownloadSpeed,
     MaxUploadSpeed |-> persist.MaxUploadSpeed,
     blacklist |-> blacklist,
     nodes |-> nodes]

Rank(c) ==
    IF c.priority THEN 1
    ELSE IF c.fileRecentlySuccessful THEN 2
    ELSE IF c.stuck THEN 3
    ELSE 4

HeapIDs == {ChunkID(uploadHeap.heap[k]) : k \in 1..Len(uploadHeap.heap)}

CurrentSectionPresent ==
    /\ \A s \in Streams :
           (pc[s] = "ready" /\ ~atEOF(s)) =>
               currentSection(s) \in DOMAIN dataSections[staticStreamBuffer[s]]
    /\ panic # "data section should always in the stream buffer"

\* a stream has read up to the second section of a buffer while the other
\* stream on that buffer is at the start of the first section
CurrentSectionPresentWitness ==
    /\ ret.op = "Read" /\ ret.err = "" /\ ret.n > 0
    /\ \E s \in Streams :
           /\ ret.s = s
           /\ ~atEOF(s)
           /\ currentSection(s) >= 1
           /\ currentSection(s) \in DOMAIN dataSections[staticStreamBuffer[s]]
           /\ \E o \in Streams \ {s} :
                  /\ pc[o] = "ready"
                  /\ staticStreamBuffer[o] = staticStreamBuffer[s]
                  /\ offset[o] = 0

\* ------------------------------------------------------------------ C35
\* C35: once prepareOffset is complete on a stream whose offset o is below
\* dataSize (after callNewStream, a successful Seek or a Read), the lru of the
\* stream holds i = o / sectionSize, and i+1 too when (i+1) * sectionSize <
\* dataSize, with i+1 the most recently used entry; no eviction of
\* prepareOffset takes the section of the offset out of the lru; and a Seek
\* or Read that leaves the stream at dataSize leaves the lru and the buffer's
\* sections as they were.
LookAhead ==
    /\ [](\A s \in Streams :
             (pc[s] = "ready" /\ offset[s] < staticDataSize[staticStreamBuffer[s]]) =>
                 LET b == staticStreamBuffer[s]
                     i == offset[s] \div staticDataSectionSize[b]
                 IN  /\ InSeq(lru[s], i)
                     /\ IF (i + 1) * staticDataSectionSize[b] < staticDataSize[b]
                        THEN lru[s][1] = i + 1 /\ InSeq(lru[s], i + 1)
                        ELSE lru[s][1] = i)
    /\ [][\A s \in Streams :
             /\ (/\ pc[s] = "prepare"
                 /\ offset[s] < staticDataSize[staticStreamBuffer[s]]
                 /\ Len(lru'[s]) < Len(lru[s]))
                => Last(lru[s]) # currentSection(s)
             /\ (/\ ret'.s = s
                 /\ ret'.op \in {"Seek", "Read"}
                 /\ ret'.err = ""
                 /\ offset'[s] = staticDataSize[staticStreamBuffer[s]])
                => /\ lru'[s] = lru[s]
                   /\ pc'[s] = "ready"
                   /\ dataSections' = dataSections]_vars

\* a stream stands in the second section with the third looked ahead to,
\* while the first is not in its buffer
LookAheadWitness ==
    \E s \in Streams :
        /\ pc[s] = "ready"
        /\ currentSection(s) = 1
        /\ lru[s] = <<2, 1>>
        /\ 0 \notin DOMAIN dataSections[staticStreamBuffer[s]]

\* ------------------------------------------------------------------ C36
\* C36: on a stream at an offset o below dataSize, for every buffer length L
\* the number of bytes Read sets out to copy, by its case split on the last
\* section, is min(L, sectionSize - o mod sectionSize, dataSize - o); a Read
\* that succeeds returns that many bytes, all of the section of o and none
\* beyond the end of the data, and moves the offset by the number returned.
ReadLength ==
    /\ [](\A s \in Streams :
             (pc[s] = "ready" /\ offset[s] < staticDataSize[staticStreamBuffer[s]]) =>
                 \A L \in 0..(MaxReadLen + 1) :
                     LET b == staticStreamBuffer[s]
                         inSection == staticDataSectionSize[b] -
                                          (offset[s] % staticDataSectionSize[b])
                         inData == staticDataSize[b] - offset[s]
                     IN  bytesToRead(s, L) = Min(L, Min(inSection, inData)))
    /\ [][\A s \in Streams :
             (/\ ret'.s = s
              /\ ret'.op = "Read"
              /\ ret'.err = ""
              /\ offset[s] < staticDataSize[staticStreamBuffer[s]])
             => LET b == staticStreamBuffer[s]
                    ss == staticDataSectionSize[b]
                    o == offset[s]
                    n == ret'.n
                IN  /\ n = Min(ret'.len, Min(ss - (o % ss), staticDataSize[b] - o))
                    /\ Len(ret'.data) = n
                    /\ offset'[s] = o + n
                    /\ o + n <= staticDataSize[b]
                    /\ o + n <= ((o \div ss) + 1) * ss]_vars

\* a Read with a buffer longer than what is left of the section, in a
\* section that is not the last, returns the rest of the section only
ReadLengthWitness ==
    /\ ret.op = "Read" /\ ret.err = "" /\ ret.s \in Streams
    /\ ret.n >= 1
    /\ ret.n < ret.len
    /\ ret.pos < staticDataSize[ret.buf]
    /\ ret.pos % staticDataSectionSize[ret.buf] = 0

\* ------------------------------------------------------------------ C37
\* C37: Stop calls the AfterStop hooks in the reverse of the order of their
\* registration, so the hooks still to call are always the first ones
\* registered; the save of the settings and of the node list, registered
\* second, runs while the logger, whose close was registered first, is still
\* open, so that an error of the save can be logged.
AfterStopReverse ==
    /\ [](afterStopLeft = SubSeq(AfterStopHooks, 1, Len(afterStopLeft)))
    /\ []((\E k \in 1..Len(afterStopLeft) : afterStopLeft[k] = "save") => logOpen)
    /\ [][(closePc = "afterStop" /\ afterStopLeft' # afterStopLeft) =>
              /\ afterStopLeft' = Front(afterStopLeft)
              /\ (Last(afterStopLeft) = "save") => (logOpen /\ logOpen')
              /\ (Last(afterStopLeft) = "log") => (logOpen /\ ~logOpen')]_vars

\* the save hook has run and failed, with a peer's node not on disk, and the
\* logger is still open, its close being the one hook left
AfterStopReverseWitness ==
    /\ closePc = "afterStop"
    /\ afterStopLeft = <<"log">>
    /\ logOpen
    /\ saved # InMemory

FailedSectionStaysCached ==
    /\ [][\A s \in Streams :
             (ret'.op = "Read" /\ ret'.s = s) =>
                 LET b == staticStreamBuffer[s]
                     i == currentSection(s)
                     failed == /\ ~atEOF(s)
                               /\ i \in DOMAIN dataSections[b]
                               /\ dataSections[b][i].externErr
                 IN  /\ failed <=> ret'.err = "fetch"
                     /\ failed => /\ ret'.n = 0
                                   /\ ret'.data = <<>>
                                   /\ offset' = offset
                                   /\ lru' = lru
                                   /\ pc' = pc
                                   /\ dataSections' = dataSections
                                   /\ readAtCalls' = readAtCalls]_vars
    /\ [][\A b \in Buffers : \A i \in DOMAIN dataSections[b] :
             dataSections[b][i].externErr =>
                 IF i \in DOMAIN dataSections'[b]
                 THEN /\ dataSections'[b][i].externErr
                      /\ dataSections'[b][i].dataAvailable
                      /\ dataSections'[b][i].externData = dataSections[b][i].externData
                      /\ readAtCalls'[b][i] = readAtCalls[b][i]
                 ELSE dataSections[b][i].refCount = 1]_vars
    /\ [][\A b \in Buffers : \A i \in DOMAIN dataSections'[b] \ DOMAIN dataSections[b] :
             /\ ~dataSections'[b][i].dataAvailable
             /\ ~dataSections'[b][i].externErr
             /\ dataSections'[b][i].fetchPc = "ReadAt"
             /\ dataSections'[b][i].refCount = 1
             /\ readAtCalls'[b][i] = 1]_vars

\* a Read has returned the error of a section that the other stream of the
\* buffer holds too, while the next section has been fetched well
FailedSectionStaysCachedWitness ==
    /\ ret.op = "Read" /\ ret.err = "fetch" /\ ret.n = 0
    /\ LET b == ret.buf
           i == ret.pos \div staticDataSectionSize[b]
       IN  /\ offset[ret.s] = ret.pos
           /\ dataSections[b][i].externErr
           /\ dataSections[b][i].refCount = 2
           /\ (i + 1) \in DOMAIN dataSections[b]
           /\ dataSections[b][i + 1].dataAvailable
           /\ ~dataSections[b][i + 1].externErr

\* ------------------------------------------------------------------ C40
\* C40: a stream opened at an offset o up to dataSize, on a source whose every
\* ReadAt returns without error, and read with buffers that are not empty:
\* every Read before the end returns at least one byte and no error, a Read
\* returns end-of-stream in the end, and by then the Reads have delivered, in
\* order, the dataSize - o bytes of the source from o on.
SequentialReadTerminates ==
    /\ [](ret.op = "Read" =>
              /\ ret.err \in {"", "EOF"}
              /\ ret.err = "" => ret.n >= 1
              /\ ret.err = "EOF" =>
                     LET b == ret.buf
                     IN  /\ ret.n = 0
                         /\ offset[1] = staticDataSize[b]
                         /\ Len(delivered.data) = staticDataSize[b] - delivered.from
                         /\ delivered.data = ReadAt(staticStreamID[b], delivered.from,
                                                    staticDataSize[b] - delivered.from))
    /\ [](pc[1] # "none" =>
              offset[1] = delivered.from + Len(delivered.data))
    /\ (pc[1] # "none") ~> (ret.op = "Read" /\ ret.err = "EOF")

\* Read has returned end-of-stream to a reader that began at the start of
\* data of several sections and has got all of it
SequentialReadTerminatesWitness ==
    /\ ret.op = "Read" /\ ret.err = "EOF"
    /\ delivered.from = 0
    /\ Len(delivered.data) = MaxDataSize
    /\ staticDataSectionSize[ret.buf] = 1
====
